---- MODULE Spec2Model ----
(***************************************************************************)
(* VawcTracker: the storage contract (MemStorage in server/storage.ts,     *)
(* DBStorage in server/db-storage.ts over the tables of the setup scripts) *)
(* and the REST handlers of registerRoutes that drive it.                  *)
(*                                                                         *)
(* JSON objects and stored rows are functions from field names to values;  *)
(* a field that is absent from an object is absent from the DOMAIN.        *)
(***************************************************************************)
EXTENDS Integers, Sequences, FiniteSets, TLC

\* ------------------------------------------------------------------ bounds
MaxCaseId == 1
MaxServiceId == 1
MaxNoteId == 1
MaxUserId == 2
MaxSeedCases == 1
MaxTokens == 2
\* the most cases, and the most notes and services together, of a listed store
MaxListed == 2
\* the most cases and notes a store behind the dashboard is given
MaxDashCases == 6
MaxDashNotes == 6
\* the hours between two readings of the clock, and the last reading
ClockStep == 12
MaxNow == 37

\* ------------------------------------------------------- values and helpers
\* result of a lookup that finds nothing (JS undefined)
Undefined == [undefined |-> TRUE]
\* JS null, the "no such user" answer of validateUser
Null == [null |-> TRUE]

\* a JSON number sent where a string is expected
JsonNumber == "#42"
\* getTime() of an Invalid Date (NaN), and of the date GoodDateString names
InvalidDate == -1
IncidentTime == 0
\* a JSON string in a field that holds a Date (createdAt of a request body):
\* it has no getTime() and no toISOString()
DateString == -2
\* an incidentDate string that parses, and one that does not
GoodDateString == "2023-12-15"
BadDateString == "not-a-date"

Has(o, k) == k \in DOMAIN o

\* typeof v for the scalar values of the model
Typeof(v) == IF v = JsonNumber THEN "number" ELSE "string"

\* !o[k] of JavaScript: an absent field and the empty string are falsy
Falsy(o, k) == ~Has(o, k) \/ o[k] = ""

\* { ...a, ...b }
Spread(a, b) == [k \in DOMAIN a \cup DOMAIN b |-> IF k \in DOMAIN b THEN b[k] ELSE a[k]]

\* delete o[k] for every k in ks
Delete(o, ks) == [k \in DOMAIN o \ ks |-> o[k]]

\* new Date(s): a parseable string becomes that date, any other string Invalid Date
NewDate(s) == IF s = GoodDateString THEN IncidentTime ELSE InvalidDate

\* bcrypt.hash(p, 10)
Hash(p) == "$2b$10$" \o p

\* bcrypt.compare(data, hash): rejects unless both arguments are strings,
\* otherwise tells whether hash is the hash of data
BcryptCompare(data, hash) ==
    IF Typeof(data) # "string" \/ Typeof(hash) # "string"
    THEN "error"
    ELSE IF hash = Hash(data) THEN "true" ELSE "false"

StatusValues == {"active", "pending", "closed"}

\* ---------------------------------------------------------------- state
VARIABLES
    backend,           \* "mem": MemStorage, "db": DBStorage (DATABASE_URL set)
    users,             \* id -> User
    cases,             \* id -> Case
    services,          \* id -> Service
    notes,             \* id -> Note
    currentUserId,     \* next user id (counter / serial)
    currentCaseId,     \* next case id
    currentServiceId,  \* next service id
    currentNoteId,     \* next note id
    now,               \* the clock reading (new Date(), defaultNow()) the calls are served at
    issuedCaseIds,     \* history: the ids createCase has returned so far
    twin,              \* a DBStorage given the same calls as the store (SpecTwin)
    session,           \* the client's session in the session store
    tokens,            \* history: the tokens logins have answered with
    pending,           \* the PUT requests that are between two awaits of their handler
    client             \* the browser: the AuthProvider's state and localStorage

vars == <<backend, users, cases, services, notes, currentUserId, currentCaseId,
          currentServiceId, currentNoteId, now, issuedCaseIds, twin, session, tokens,
          pending, client>>

\* what the steps that serve one request at a time leave alone
aside == <<pending, client>>

\* the store as one value, for the operations below
Store == [backend |-> backend, users |-> users, cases |-> cases,
          services |-> services, notes |-> notes,
          currentUserId |-> currentUserId, currentCaseId |-> currentCaseId,
          currentServiceId |-> currentServiceId, currentNoteId |-> currentNoteId]

\* an operation's outcome: the store after it, what it returned, whether it threw
Returned(st, ret) == [st |-> st, ret |-> ret, threw |-> FALSE]
Threw(st) == [st |-> st, ret |-> Undefined, threw |-> TRUE]

\* ------------------------------------------------------------ user methods
getUser(st, id) == IF id \in DOMAIN st.users THEN st.users[id] ELSE Undefined

\* the first user with that username (ids are handed out in insertion order)
getUserByUsername(st, username) ==
    LET ids == {i \in DOMAIN st.users : st.users[i].username = username}
    IN IF ids = {} THEN Undefined
       ELSE st.users[CHOOSE i \in ids : \A j \in ids : i <= j]

\* MemStorage stores any user; the users table has username UNIQUE
createUser(st, insertUser, t) ==
    LET id == st.currentUserId
        user == Spread(insertUser, [id |-> id, createdAt |-> t])
        st1 == [st EXCEPT !.currentUserId = id + 1]
    IN IF st.backend = "db" /\ getUserByUsername(st, insertUser.username) # Undefined
       THEN Threw(st1)
       ELSE Returned([st1 EXCEPT !.users = id :> user @@ st.users], user)

\* MemStorage lets a rejected compare propagate; DBStorage catches it
validateUser(st, username, password) ==
    LET user == getUserByUsername(st, username)
        isValid == BcryptCompare(password, user.password)
    IN IF user = Undefined THEN Returned(st, Null)
       ELSE IF isValid = "error"
            THEN IF st.backend = "mem" THEN Threw(st) ELSE Returned(st, Null)
            ELSE Returned(st, IF isValid = "true" THEN user ELSE Null)

\* ------------------------------------------------------------ case methods
getCase(st, id) == IF id \in DOMAIN st.cases THEN st.cases[id] ELSE Undefined

\* the columns of the cases table that DBStorage.createCase fills
\* (caseData.x || default)
NewCaseData(caseData, t) ==
    [victimName |-> caseData.victimName,
     incidentDate |-> IF Has(caseData, "incidentDate") THEN caseData.incidentDate ELSE t,
     incidentType |-> IF Falsy(caseData, "incidentType") THEN "Not specified"
                      ELSE caseData.incidentType,
     perpetratorName |-> caseData.perpetratorName,
     encoderName |-> caseData.encoderName,
     status |-> caseData.status,
     priority |-> IF Falsy(caseData, "priority") THEN "Medium" ELSE caseData.priority]

\* the NOT NULL columns without a default
RequiredColumns == {"victimName", "perpetratorName", "encoderName", "status"}

\* a createCase that numbers the new case after the cases it holds
MemCreateCaseCounting(st, caseData, t) ==
    LET id == Cardinality(DOMAIN st.cases) + 1
        newCase == Spread(caseData, [id |-> id, createdAt |-> t, updatedAt |-> t])
    IN Returned([st EXCEPT !.currentCaseId = st.currentCaseId + 1,
                           !.cases = id :> newCase @@ st.cases], newCase)

MemCreateCase(st, caseData, t) ==
    LET id == st.currentCaseId
        newCase == Spread(caseData, [id |-> id, createdAt |-> t, updatedAt |-> t])
    IN Returned([st EXCEPT !.currentCaseId = id + 1, !.cases = id :> newCase @@ st.cases],
                newCase)

\* INSERT ... RETURNING: the serial is consumed also when the insert fails
\* (a missing NOT NULL column, or the primary key taken by a row whose id
\* an update changed)
DbCreateCase(st, caseData, t) ==
    LET id == st.currentCaseId
        st1 == [st EXCEPT !.currentCaseId = id + 1]
    IN IF ~(RequiredColumns \subseteq DOMAIN caseData) \/ id \in DOMAIN st.cases
       THEN Threw(st1)
       ELSE LET row == Spread(NewCaseData(caseData, t), [id |-> id, createdAt |-> t])
            IN Returned([st1 EXCEPT !.cases = id :> row @@ st.cases], row)

createCase(st, caseData, t) ==
    IF st.backend = "mem" THEN MemCreateCase(st, caseData, t) ELSE DbCreateCase(st, caseData, t)

\* ------------------------------------------------------ a failing connection
\* A query of DBStorage rejects when the connection to the database fails.
\* FailingAfter(st, n) is the DBStorage st whose connection fails after n
\* more inserts of services and notes; MemStorage has no connection, and a
\* store without the field writesLeft keeps its connection.
FailingAfter(st, n) ==
    IF st.backend = "db" THEN Spread(st, [writesLeft |-> n]) ELSE st

\* the connection of the store is lost
Lost(st) == Has(st, "writesLeft") /\ st.writesLeft = 0

\* the outcome of an insert on a store that counts its writes
Wrote(r) ==
    IF Has(r.st, "writesLeft") /\ ~r.threw THEN [r EXCEPT !.st.writesLeft = @ - 1] ELSE r

\* ---------------------------------------------------- service / note methods
\* services and notes carry a case_id foreign key in the database (and notes
\* an author_id one); MemStorage stores whatever it is given
MemAddService(st, serviceData, t) ==
    LET id == st.currentServiceId
        service == Spread(serviceData, [id |-> id, createdAt |-> t])
    IN Returned([st EXCEPT !.currentServiceId = id + 1,
                           !.services = id :> service @@ st.services], service)

DbAddService(st, serviceData, t) ==
    LET id == st.currentServiceId
        service == Spread(serviceData, [id |-> id, createdAt |-> t])
        st1 == [st EXCEPT !.currentServiceId = id + 1]
    IN IF serviceData.caseId \notin DOMAIN st.cases
       THEN Threw(st1)
       ELSE Returned([st1 EXCEPT !.services = id :> service @@ st.services], service)

addService(st, serviceData, t) ==
    IF st.backend = "mem" THEN MemAddService(st, serviceData, t)
    ELSE IF Lost(st) THEN Threw(st)
    ELSE Wrote(DbAddService(st, serviceData, t))

MemAddNote(st, noteData, t) ==
    LET id == st.currentNoteId
        note == Spread(noteData, [id |-> id, createdAt |-> t])
    IN Returned([st EXCEPT !.currentNoteId = id + 1, !.notes = id :> note @@ st.notes], note)

DbAddNote(st, noteData, t) ==
    LET id == st.currentNoteId
        note == Spread(noteData, [id |-> id, createdAt |-> t])
        st1 == [st EXCEPT !.currentNoteId = id + 1]
    IN IF noteData.caseId \notin DOMAIN st.cases \/ noteData.authorId \notin DOMAIN st.users
       THEN Threw(st1)
       ELSE Returned([st1 EXCEPT !.notes = id :> note @@ st.notes], note)

addNote(st, noteData, t) ==
    IF st.backend = "mem" THEN MemAddNote(st, noteData, t)
    ELSE IF Lost(st) THEN Threw(st)
    ELSE Wrote(DbAddNote(st, noteData, t))

\* the rows of a case; the order of the list is not modelled here
getCaseServices(st, caseId) == {s \in DOMAIN st.services : st.services[s].caseId = caseId}
getCaseNotes(st, caseId) == {n \in DOMAIN st.notes : st.notes[n].caseId = caseId}

\* ------------------------------------------------- update, delete, details
\* an updateCase that spreads the stored case over the payload
MemUpdateCaseStoredWins(st, id, caseData, t) ==
    LET existingCase == getCase(st, id)
        updatedCase == Spread(Spread(caseData, existingCase), [updatedAt |-> t])
    IN IF existingCase = Undefined THEN Returned(st, Undefined)
       ELSE Returned([st EXCEPT !.cases[id] = updatedCase], updatedCase)

MemUpdateCase(st, id, caseData, t) ==
    LET existingCase == getCase(st, id)
        updatedCase == Spread(Spread(existingCase, caseData), [updatedAt |-> t])
    IN IF existingCase = Undefined THEN Returned(st, Undefined)
       ELSE Returned([st EXCEPT !.cases[id] = updatedCase], updatedCase)

\* the columns of the cases table (there is no updated_at column)
CaseColumns == {"id", "createdAt", "victimName", "incidentDate", "incidentType",
                "perpetratorName", "encoderName", "status", "priority"}

\* UPDATE cases SET <the columns that caseData names> WHERE id = $id RETURNING *.
\* The statement fails when caseData names no column, when a timestamp is
\* not a valid date or no Date at all, and when a changed id is taken or the
\* row is still referenced by services or notes.
DbUpdateCase(st, id, caseData, t) ==
    LET existingCase == getCase(st, id)
        set == Delete(caseData, DOMAIN caseData \ CaseColumns)
        row == Spread(existingCase, set)
        moved == Has(set, "id") /\ set.id # id
    IN IF existingCase = Undefined THEN Returned(st, Undefined)
       ELSE IF DOMAIN set = {} THEN Threw(st)
       ELSE IF Has(set, "incidentDate") /\ set.incidentDate = InvalidDate THEN Threw(st)
       ELSE IF Has(set, "createdAt") /\ set.createdAt = DateString THEN Threw(st)
       ELSE IF moved /\ (set.id \in DOMAIN st.cases
                         \/ getCaseServices(st, id) # {} \/ getCaseNotes(st, id) # {})
            THEN Threw(st)
       ELSE Returned([st EXCEPT !.cases = row.id :> row @@ Delete(st.cases, {id})], row)

\* an updateCase that stores the payload also when no case has the id
updateCaseUpsert(st, id, caseData, t) ==
    LET updatedCase == Spread(Spread(IF id \in DOMAIN st.cases THEN st.cases[id] ELSE <<>>,
                                     caseData), [updatedAt |-> t])
    IN Returned([st EXCEPT !.cases = id :> updatedCase @@ st.cases], updatedCase)

updateCase(st, id, caseData, t) ==
    IF st.backend = "mem" THEN MemUpdateCase(st, id, caseData, t)
    ELSE DbUpdateCase(st, id, caseData, t)

\* a deleteCase that removes the case and leaves its services and notes
deleteCaseOnly(st, id) ==
    IF id \notin DOMAIN st.cases THEN Returned(st, FALSE)
    ELSE Returned([st EXCEPT !.cases = Delete(st.cases, {id})], TRUE)

\* both stores remove the case and the services and notes with its caseId
deleteCase(st, id) ==
    IF id \notin DOMAIN st.cases THEN Returned(st, FALSE)
    ELSE Returned([st EXCEPT !.cases = Delete(st.cases, {id}),
                             !.services = Delete(st.services, getCaseServices(st, id)),
                             !.notes = Delete(st.notes, getCaseNotes(st, id))], TRUE)

\* author: { id: author?.id || 0, fullName: author?.fullName || 'Unknown' }
NoteWithAuthor(st, note) ==
    LET author == getUser(st, note.authorId)
    IN Spread(note, [author |-> IF author = Undefined
                                THEN [id |-> 0, fullName |-> "Unknown"]
                                ELSE [id |-> author.id, fullName |-> author.fullName]])

getCaseWithDetails(st, id) ==
    LET foundCase == getCase(st, id)
    IN IF foundCase = Undefined THEN Undefined
       ELSE [case |-> foundCase,
             services |-> {st.services[s] : s \in getCaseServices(st, id)},
             notes |-> {NoteWithAuthor(st, st.notes[n]) : n \in getCaseNotes(st, id)}]

\* the four counts of the dashboard
CountStatus(st, status) ==
    Cardinality({c \in DOMAIN st.cases : st.cases[c].status = status})

\* dashboard counts whose total is the number of cases ever created
getDashboardStatsEverCreated(st) ==
    [totalCases |-> st.currentCaseId - 1,
     activeCases |-> CountStatus(st, "active"),
     pendingCases |-> CountStatus(st, "pending"),
     closedCases |-> CountStatus(st, "closed")]

getDashboardStats(st) ==
    [totalCases |-> Cardinality(DOMAIN st.cases),
     activeCases |-> CountStatus(st, "active"),
     pendingCases |-> CountStatus(st, "pending"),
     closedCases |-> CountStatus(st, "closed")]

\* ------------------------------------------------------------------- lists
\* the rows of `ids` with the greatest key
Newest(ids, key) == {i \in ids : \A j \in ids : key[j] <= key[i]}

\* the lists that hold the rows `rows[i]`, i in ids, by descending key; rows
\* of equal key are in insertion (id) order when `stable`, in any order otherwise
RECURSIVE DescLists(_, _, _, _)
DescLists(rows, ids, key, stable) ==
    IF ids = {} THEN {<<>>}
    ELSE LET top == Newest(ids, key)
             firsts == IF stable THEN {CHOOSE i \in top : \A j \in top : i <= j} ELSE top
         IN UNION {{<<rows[x]>> \o tail : tail \in DescLists(rows, ids \ {x}, key, stable)} :
                       x \in firsts}

\* Array.from(map.values()).sort((a, b) => time(b) - time(a)): the sort is
\* stable and the Map iterates in insertion order; a comparator that meets an
\* Invalid Date returns NaN, which leaves two rows as they are and the order
\* of three or more to the engine; a comparator that meets a row whose field
\* is no Date throws, and the call returns no list
MemSorted(rows, ids, field) ==
    IF Cardinality(ids) >= 2 /\ \E i \in ids : rows[i][field] = DateString
    THEN {}
    ELSE IF \E i \in ids : rows[i][field] = InvalidDate
    THEN IF Cardinality(ids) <= 2
         THEN DescLists(rows, ids, [i \in ids |-> 0], TRUE)
         ELSE DescLists(rows, ids, [i \in ids |-> 0], FALSE)
    ELSE DescLists(rows, ids, [i \in ids |-> rows[i][field]], TRUE)

\* ORDER BY field DESC: rows of equal key come in whatever order the plan yields
DbSorted(rows, ids, field) == DescLists(rows, ids, [i \in ids |-> rows[i][field]], FALSE)

Sorted(st, rows, ids, field) ==
    IF st.backend = "mem" THEN MemSorted(rows, ids, field) ELSE DbSorted(rows, ids, field)

\* the lists getCases may return (none when the call throws)
getCases(st) == Sorted(st, st.cases, DOMAIN st.cases, "createdAt")

\* the lists getCaseServices and getCaseNotes may return
getCaseServicesSorted(st, caseId) ==
    Sorted(st, st.services, getCaseServices(st, caseId), "dateProvided")

getCaseNotesSorted(st, caseId) == Sorted(st, st.notes, getCaseNotes(st, caseId), "createdAt")

\* s.slice(0, n)
Slice(s, n) == SubSeq(s, 1, IF Len(s) < n THEN Len(s) ELSE n)

\* the recentCases getDashboardStats may return: the first five of getCases,
\* each expanded by getCaseWithDetails, the undefined ones filtered out
RecentLimit == 5

\* detailedCases.filter(c => c !== undefined)
Defined(x) == x # Undefined

\* the list is read from the store `st`; getCaseWithDetails then runs, after
\* an await, on the store `later`, which is `st` unless another request ran
RecentCasesAt(st, later) ==
    {SelectSeq([i \in 1..Len(recent) |-> getCaseWithDetails(later, recent[i].id)], Defined) :
        recent \in {Slice(all, RecentLimit) : all \in getCases(st)}}

RecentCases(st) == RecentCasesAt(st, st)

\* the six sample activities MemStorage.getDashboardStats returns (dated 2023)
SampleActivity(authorId, authorName, action, caseId, victimName) ==
    [authorId |-> authorId, authorName |-> authorName, action |-> action,
     timestamp |-> IncidentTime, caseId |-> caseId, victimName |-> victimName]

MemStaffActivities ==
    <<SampleActivity(1, "Admin User", "Created new case", 1, "Maria Santos"),
      SampleActivity(2, "Juan Dela Cruz", "Added legal assistance service", 2, "Ana Reyes"),
      SampleActivity(3, "Rose Manalo", "Closed case", 3, "Sophia Cruz"),
      SampleActivity(2, "Juan Dela Cruz", "Filed police report", 4, "Jasmine Martinez"),
      SampleActivity(3, "Rose Manalo", "Added counseling service", 5, "Lilia Mendoza"),
      SampleActivity(1, "Admin User", "Updated case information", 1, "Maria Santos")>>

\* the activity DBStorage.getDashboardStats builds from a note
NoteActivity(st, note) ==
    LET author == getUser(st, note.authorId)
        caseItem == getCase(st, note.caseId)
    IN [authorId |-> note.authorId,
        authorName |-> IF author = Undefined THEN "Unknown" ELSE author.fullName,
        action |-> "Added case note", timestamp |-> note.createdAt, caseId |-> note.caseId,
        victimName |-> IF caseItem = Undefined \/ ~Has(caseItem, "victimName") THEN Undefined
                       ELSE caseItem.victimName]

\* ORDER BY created_at DESC LIMIT 5 over the notes table
NotesLimit == 5

DbStaffActivities(st) ==
    {[i \in 1..Len(recentNotes) |-> NoteActivity(st, recentNotes[i])] :
        recentNotes \in {Slice(all, NotesLimit) :
                            all \in DbSorted(st.notes, DOMAIN st.notes, "createdAt")}}

\* the staffActivities getDashboardStats may return
StaffActivities(st) ==
    IF st.backend = "mem" THEN {MemStaffActivities} ELSE DbStaffActivities(st)

\* stats.recentCases[i]?.victimName || "Unknown" (i counted from 0)
VictimNameAt(recentCases, i) ==
    IF i + 1 <= Len(recentCases) /\ ~Falsy(recentCases[i + 1].case, "victimName")
    THEN recentCases[i + 1].case.victimName ELSE "Unknown"

\* the staffActivities GET /api/dashboard answers with: the handler replaces
\* the storage's list by two sample entries
RouteStaffActivities(recentCases, t) ==
    <<[authorId |-> 2, authorName |-> "Juan Dela Cruz", action |-> "Added a new case",
       timestamp |-> t, victimName |-> VictimNameAt(recentCases, 0)],
      [authorId |-> 3, authorName |-> "Rose Manalo", action |-> "Updated case status",
       timestamp |-> t - 1, victimName |-> VictimNameAt(recentCases, 1)]>>

\* the bodies GET /api/dashboard may answer with
DashboardJson(st, t) ==
    {Spread(getDashboardStats(st),
            [recentCases |-> recentCases,
             staffActivities |-> RouteStaffActivities(recentCases, t)]) :
        recentCases \in RecentCases(st)}

\* ---------------------------------------------------------- the case-detail view
\* the page renders caseData.notes, the list getCaseWithDetails holds, in the
\* order of the list; index counts from 0
NoteLabel(index) == IF index = 0 THEN [text |-> "Case Opened"] ELSE [text |-> "Update"]

\* index === 0 ? "Case Opened" : `Update ${index}`
TimelineLabel(index) ==
    IF index = 0 THEN [text |-> "Case Opened"] ELSE [text |-> "Update", number |-> index]

\* the labels of the notes list and of the timeline, one per note of the list
CaseDetailLabels(list) ==
    [k \in 1..Len(list) |-> [note |-> list[k], label |-> NoteLabel(k - 1),
                              timeline |-> TimelineLabel(k - 1)]]

\* ------------------------------------------------------------ REST handlers
\* what a handler leaves behind: the store and the response
Reply(st, status, json) == [st |-> st, status |-> status, json |-> json]

ValidationError == [message |-> "Validation error", error |-> "thrown"]

\* req.body.services.filter(s => s.selected).map(s => s.type); the call
\* throws a TypeError when services is not an array
SelectedTypes(items) ==
    LET sel == SelectSeq(items, LAMBDA s : s.selected)
    IN [i \in 1..Len(sel) |-> sel[i].type]

\* for (const type of serviceTypes) await addService({...}), skipping the
\* types in `skip` (the PUT handler passes the types the case already has)
\* a loop that adds a service for every selected type, existing or not
RECURSIVE AddServicesAgain(_, _, _, _, _, _)
AddServicesAgain(st, types, skip, provider, caseId, t) ==
    IF types = <<>> THEN Returned(st, Undefined)
    ELSE LET r == addService(st, [type |-> Head(types), dateProvided |-> t,
                                  provider |-> provider, caseId |-> caseId], t)
         IN IF r.threw THEN r
            ELSE AddServicesAgain(r.st, Tail(types), skip, provider, caseId, t)

RECURSIVE AddServices(_, _, _, _, _, _)
AddServices(st, types, skip, provider, caseId, t) ==
    IF types = <<>> THEN Returned(st, Undefined)
    ELSE IF Head(types) \in skip
         THEN AddServices(st, Tail(types), skip, provider, caseId, t)
         ELSE LET r == addService(st, [type |-> Head(types), dateProvided |-> t,
                                       provider |-> provider, caseId |-> caseId], t)
              IN IF r.threw THEN r
                 ELSE AddServices(r.st, Tail(types), skip, provider, caseId, t)

\* a tail that writes a truthy caseNotes over the newest note of the case
\* when the case has one
AddCaseNoteReplacing(st, body, userId, caseId, t, status, json) ==
    LET own == getCaseNotes(st, caseId)
        last == CHOOSE n \in own : \A m \in own : m <= n
        r == addNote(st, [content |-> body.caseNotes, authorId |-> userId,
                          caseId |-> caseId], t)
    IN IF Falsy(body, "caseNotes") THEN Reply(st, status, json)
       ELSE IF own # {}
       THEN Reply([st EXCEPT !.notes[last].content = body.caseNotes,
                             !.notes[last].authorId = userId], status, json)
       ELSE IF r.threw THEN Reply(r.st, 400, ValidationError)
       ELSE Reply(r.st, status, json)

\* the tail of both handlers: the note of a truthy caseNotes, then the reply
AddCaseNote(st, body, userId, caseId, t, status, json) ==
    IF Falsy(body, "caseNotes") THEN Reply(st, status, json)
    ELSE LET r == addNote(st, [content |-> body.caseNotes, authorId |-> userId,
                               caseId |-> caseId], t)
         IN IF r.threw THEN Reply(r.st, 400, ValidationError)
            ELSE Reply(r.st, status, json)

\* the body without the fields of the form that are no case fields, its
\* incidentDate string turned into a Date
CaseDataOf(body) ==
    LET caseData == Delete(body, {"services", "otherServices", "caseNotes"})
    IN IF Falsy(caseData, "incidentDate") THEN caseData
       ELSE [caseData EXCEPT !.incidentDate = NewDate(caseData.incidentDate)]

\* a POST /api/cases that undoes its writes when one of them fails
PostCasesRollingBack(st, body, userId, t) ==
    IF Falsy(body, "victimName") \/ Typeof(body.victimName) # "string"
    THEN Reply(st, 400, [message |-> "Victim name is required and must be a string"])
    ELSE IF Falsy(body, "incidentType") \/ Typeof(body.incidentType) # "string"
    THEN Reply(st, 400, [message |-> "Incident type is required and must be a string"])
    ELSE IF Falsy(body, "perpetratorName") \/ Typeof(body.perpetratorName) # "string"
    THEN Reply(st, 400, [message |-> "Perpetrator name is required and must be a string"])
    ELSE IF Falsy(body, "encoderName") \/ Typeof(body.encoderName) # "string"
    THEN Reply(st, 400, [message |-> "Encoder name is required and must be a string"])
    ELSE IF Falsy(body, "status") \/ body.status \notin StatusValues
    THEN Reply(st, 400, [message |-> "Status is required and must be one of: active, pending, closed"])
    ELSE IF Falsy(body, "incidentDate")
    THEN Reply(st, 400, [message |-> "Incident date is required"])
    ELSE IF NewDate(body.incidentDate) = InvalidDate
    THEN Reply(st, 400, [message |-> "Invalid incident date format"])
    ELSE
      LET created == createCase(st, CaseDataOf(body), t)
          newCase == created.ret
          added == IF Has(body, "services") /\ body.services.isArray /\ ~created.threw
                   THEN AddServices(created.st, SelectedTypes(body.services.items), {},
                                    body.encoderName, newCase.id, t)
                   ELSE created
          noted == AddCaseNote(added.st, body, userId, newCase.id, t, 201, newCase)
      IN IF created.threw \/ added.threw \/ noted.status # 201
            \/ (Has(body, "services") /\ ~body.services.isArray)
         THEN Reply(st, 400, ValidationError)
         ELSE noted

\* POST /api/cases
PostCases(st, body, userId, t) ==
    IF Falsy(body, "victimName") \/ Typeof(body.victimName) # "string"
    THEN Reply(st, 400, [message |-> "Victim name is required and must be a string"])
    ELSE IF Falsy(body, "incidentType") \/ Typeof(body.incidentType) # "string"
    THEN Reply(st, 400, [message |-> "Incident type is required and must be a string"])
    ELSE IF Falsy(body, "perpetratorName") \/ Typeof(body.perpetratorName) # "string"
    THEN Reply(st, 400, [message |-> "Perpetrator name is required and must be a string"])
    ELSE IF Falsy(body, "encoderName") \/ Typeof(body.encoderName) # "string"
    THEN Reply(st, 400, [message |-> "Encoder name is required and must be a string"])
    ELSE IF Falsy(body, "status") \/ body.status \notin StatusValues
    THEN Reply(st, 400, [message |-> "Status is required and must be one of: active, pending, closed"])
    ELSE IF Falsy(body, "incidentDate")
    THEN Reply(st, 400, [message |-> "Incident date is required"])
    ELSE IF NewDate(body.incidentDate) = InvalidDate
    THEN Reply(st, 400, [message |-> "Invalid incident date format"])
    ELSE
      LET created == createCase(st, CaseDataOf(body), t)
          newCase == created.ret
      IN IF created.threw THEN Reply(created.st, 400, ValidationError)
         ELSE IF ~Has(body, "services")
         THEN AddCaseNote(created.st, body, userId, newCase.id, t, 201, newCase)
         ELSE IF ~body.services.isArray THEN Reply(created.st, 400, ValidationError)
         ELSE LET added == AddServices(created.st, SelectedTypes(body.services.items), {},
                                       body.encoderName, newCase.id, t)
              IN IF added.threw THEN Reply(added.st, 400, ValidationError)
                 ELSE AddCaseNote(added.st, body, userId, newCase.id, t, 201, newCase)

\* PUT /api/cases/:id
PutCase(st, caseId, body, userId, t) ==
    IF Has(body, "victimName") /\ Typeof(body.victimName) # "string"
    THEN Reply(st, 400, [message |-> "Victim name must be a string"])
    ELSE IF Has(body, "incidentType") /\ Typeof(body.incidentType) # "string"
    THEN Reply(st, 400, [message |-> "Incident type must be a string"])
    ELSE IF Has(body, "perpetratorName") /\ Typeof(body.perpetratorName) # "string"
    THEN Reply(st, 400, [message |-> "Perpetrator name must be a string"])
    ELSE IF Has(body, "status") /\ body.status \notin StatusValues
    THEN Reply(st, 400, [message |-> "Status must be one of: active, pending, closed"])
    ELSE
      LET updated == updateCase(st, caseId, CaseDataOf(body), t)
          updatedCase == updated.ret
          existingTypes == {updated.st.services[s].type : s \in getCaseServices(updated.st, caseId)}
          provider == IF Falsy(body, "encoderName") THEN updatedCase.encoderName
                      ELSE body.encoderName
      IN IF updated.threw THEN Reply(updated.st, 400, ValidationError)
         ELSE IF updatedCase = Undefined THEN Reply(updated.st, 404, [message |-> "Case not found"])
         ELSE IF ~Has(body, "services")
         THEN AddCaseNote(updated.st, body, userId, caseId, t, 200, updatedCase)
         ELSE IF ~body.services.isArray THEN Reply(updated.st, 400, ValidationError)
         ELSE LET added == AddServices(updated.st, SelectedTypes(body.services.items),
                                       existingTypes, provider, caseId, t)
              IN IF added.threw THEN Reply(added.st, 400, ValidationError)
                 ELSE AddCaseNote(added.st, body, userId, caseId, t, 200, updatedCase)

\* DELETE /api/cases/:id
DeleteCaseRoute(st, caseId) ==
    LET deleted == deleteCase(st, caseId)
    IN IF ~deleted.ret THEN Reply(deleted.st, 404, [message |-> "Case not found"])
       ELSE Reply(deleted.st, 200, [message |-> "Case deleted successfully"])

\* GET /api/cases/:id
GetCaseRoute(st, caseId) ==
    LET caseWithDetails == getCaseWithDetails(st, caseId)
    IN IF caseWithDetails = Undefined THEN Reply(st, 404, [message |-> "Case not found"])
       ELSE Reply(st, 200, caseWithDetails)

\* POST /api/cases/:id/notes; a storage error is answered 500
PostNote(st, caseId, body, userId, t) ==
    IF Falsy(body, "content") \/ Typeof(body.content) # "string"
    THEN Reply(st, 400, [message |-> "Note content is required"])
    ELSE LET r == addNote(st, [content |-> body.content, authorId |-> userId,
                               caseId |-> caseId], t)
         IN IF r.threw THEN Reply(r.st, 500, [message |-> "Internal server error"])
            ELSE Reply(r.st, 201, NoteWithAuthor(r.st, r.ret))

\* POST /api/cases/:id/services (dateProvided: new Date(req.body.dateProvided))
PostService(st, caseId, body, t) ==
    IF Falsy(body, "type") \/ Falsy(body, "provider") \/ Falsy(body, "dateProvided")
    THEN Reply(st, 400, [message |-> "Service type, provider, and date are required"])
    ELSE LET r == addService(st, [type |-> body.type, provider |-> body.provider,
                                  dateProvided |-> NewDate(body.dateProvided), notes |-> "",
                                  caseId |-> caseId], t)
         IN IF r.threw THEN Reply(r.st, 500, [message |-> "Internal server error"])
            ELSE Reply(r.st, 201, r.ret)

\* ------------------------------------- the routes that validate by the schema
\* the columns of the cases table the insert schema is made from, by type
StringColumns ==
    {"victimName", "perpetratorName", "barangay", "status", "encoderName",
     "encoderPosition", "encoderOffice"}
DateColumns == {"dateReported", "entryDate"}
IntegerColumns == {"encoderId"}
SchemaColumns == StringColumns \cup DateColumns \cup IntegerColumns

\* insertCaseSchema.safeParse(body), with .partial() when `partial`: status is
\* any string; a date column takes a Date, which no value of a JSON body is;
\* keys that are no column are stripped from the data
InsertCaseSchemaParse(body, partial) ==
    [success |-> /\ \A f \in DOMAIN body \cap StringColumns : Typeof(body[f]) = "string"
                 /\ \A f \in DOMAIN body \cap IntegerColumns : Typeof(body[f]) = "number"
                 /\ DOMAIN body \cap DateColumns = {}
                 /\ partial \/ SchemaColumns \subseteq DOMAIN body,
     data |-> [f \in DOMAIN body \cap SchemaColumns |-> body[f]]]

SchemaError == [message |-> "Validation error", error |-> "schema"]
ServerError == [message |-> "Internal server error"]

\* POST /api/cases of the schema-validated routes, on the MemStorage `storage`
PostCasesSchema(st, body, userId, t) ==
    LET parsed == InsertCaseSchemaParse(body, FALSE)
        created == MemCreateCase(st, parsed.data, t)
        newCase == created.ret
    IN IF ~parsed.success THEN Reply(st, 400, SchemaError)
       ELSE IF ~Has(body, "services")
       THEN AddCaseNote(created.st, body, userId, newCase.id, t, 201, newCase)
       ELSE IF ~body.services.isArray THEN Reply(created.st, 500, ServerError)
       ELSE AddCaseNote(AddServices(created.st, SelectedTypes(body.services.items), {},
                                    body.encoderName, newCase.id, t).st,
                        body, userId, newCase.id, t, 201, newCase)

\* PUT /api/cases/:id of the schema-validated routes
PutCaseSchema(st, caseId, body, t) ==
    LET parsed == InsertCaseSchemaParse(body, TRUE)
        updated == MemUpdateCase(st, caseId, parsed.data, t)
    IN IF ~parsed.success THEN Reply(st, 400, SchemaError)
       ELSE IF updated.ret = Undefined THEN Reply(st, 404, [message |-> "Case not found"])
       ELSE Reply(updated.st, 200, updated.ret)

\* ------------------------------------------------------------ authentication
\* expiresIn: "24h"; the clock of the model counts hours
ExpiresIn == 24

JWT_SECRET == "your-secret-key"

\* the HMAC of a token's content under a key
Signature(payload, iat, exp, key) == <<payload, iat, exp, key>>

\* jwt.sign(payload, secret, {expiresIn: "24h"}) at time t
JwtSign(payload, secret, t) ==
    [payload |-> payload, iat |-> t, exp |-> t + ExpiresIn,
     signature |-> Signature(payload, t, t + ExpiresIn, secret)]

\* a verification that still accepts a token at the instant it expires
JwtVerifyLate(token, secret, t) ==
    IF token.signature # Signature(token.payload, token.iat, token.exp, secret)
    THEN "JsonWebTokenError"
    ELSE IF t > token.exp THEN "TokenExpiredError" ELSE ""

\* jwt.verify(token, secret) at time t: the error, or "" for none
JwtVerify(token, secret, t) ==
    IF token.signature # Signature(token.payload, token.iat, token.exp, secret)
    THEN "JsonWebTokenError"
    ELSE IF t >= token.exp THEN "TokenExpiredError" ELSE ""

\* a request without an Authorization header
NoToken == Undefined

\* what authenticateToken answers with, status 200 standing for next()
authenticateToken(token, t) ==
    IF token = NoToken
    THEN [status |-> 401, message |-> "Unauthorized: No token provided", user |-> Undefined]
    ELSE IF JwtVerify(token, JWT_SECRET, t) # ""
         THEN [status |-> 403, message |-> "Forbidden: Invalid token", user |-> Undefined]
         ELSE [status |-> 200, message |-> "", user |-> token.payload]

\* user.role || 'editor'
Role(user) == IF Falsy(user, "role") THEN "editor" ELSE user.role

TokenPayload(user) ==
    [id |-> user.id, username |-> user.username, fullName |-> user.fullName,
     position |-> user.position, office |-> user.office, role |-> Role(user)]

SessionUser(user) ==
    [id |-> user.id, username |-> user.username, fullName |-> user.fullName,
     role |-> Role(user)]

\* a session that holds no user (none stored, or destroyed)
NoSession == [user |-> Undefined]

\* what a route leaves behind: the store, the session and the response
AuthReply(st, sess, status, json) ==
    [st |-> st, session |-> sess, status |-> status, json |-> json]

\* loginSchema: username and password are non-empty strings
LoginSchemaOk(body) ==
    \A f \in {"username", "password"} :
        Has(body, f) /\ Typeof(body[f]) = "string" /\ body[f] # ""

\* a login that puts the username in the session before it validates the user
LoginRemembersUsername(st, sess, body, t) ==
    IF ~LoginSchemaOk(body) THEN AuthReply(st, sess, 400, [message |-> "Validation error"])
    ELSE LET r == validateUser(st, body.username, body.password)
             user == r.ret
         IN IF r.threw THEN AuthReply(r.st, sess, 500, [message |-> "Internal server error"])
            ELSE IF user = Null
            THEN AuthReply(r.st, [user |-> [username |-> body.username]], 401,
                           [message |-> "Invalid username or password"])
            ELSE AuthReply(r.st, [user |-> SessionUser(user)], 200,
                           [user |-> TokenPayload(user),
                            token |-> JwtSign(TokenPayload(user), JWT_SECRET, t)])

\* a login that tells an unknown username from a wrong password
LoginNamesUnknownUser(st, sess, body, t) ==
    IF ~LoginSchemaOk(body) THEN AuthReply(st, sess, 400, [message |-> "Validation error"])
    ELSE LET r == validateUser(st, body.username, body.password)
             user == r.ret
         IN IF r.threw THEN AuthReply(r.st, sess, 500, [message |-> "Internal server error"])
            ELSE IF user = Null
            THEN AuthReply(r.st, sess, 401,
                           [message |-> IF getUserByUsername(st, body.username) = Undefined
                                        THEN "Unknown username" ELSE "Wrong password"])
            ELSE AuthReply(r.st, [user |-> SessionUser(user)], 200,
                           [user |-> TokenPayload(user),
                            token |-> JwtSign(TokenPayload(user), JWT_SECRET, t)])

\* POST /api/auth/login
Login(st, sess, body, t) ==
    IF ~LoginSchemaOk(body) THEN AuthReply(st, sess, 400, [message |-> "Validation error"])
    ELSE LET r == validateUser(st, body.username, body.password)
             user == r.ret
         IN IF r.threw THEN AuthReply(r.st, sess, 500, [message |-> "Internal server error"])
            ELSE IF user = Null
            THEN AuthReply(r.st, sess, 401, [message |-> "Invalid username or password"])
            ELSE AuthReply(r.st, [user |-> SessionUser(user)], 200,
                           [user |-> TokenPayload(user),
                            token |-> JwtSign(TokenPayload(user), JWT_SECRET, t)])

\* POST /api/auth/logout: the route has no authenticateToken in front of it
Logout(st, sess) == AuthReply(st, NoSession, 200, [message |-> "Logged out successfully"])

\* the answer of authenticateToken when it does not call next()
Refused(st, sess, auth) == AuthReply(st, sess, auth.status, [message |-> auth.message])

\* a handler that runs behind authenticateToken and never touches the session
Behind(sess, reply) == AuthReply(reply.st, sess, reply.status, reply.json)

\* GET /api/auth/me
Me(st, sess, token, t) ==
    LET auth == authenticateToken(token, t)
        user == getUser(st, auth.user.id)
    IN IF auth.status # 200 THEN Refused(st, sess, auth)
       ELSE IF user = Undefined THEN AuthReply(st, sess, 404, [message |-> "User not found"])
       ELSE AuthReply(st, sess, 200, TokenPayload(user))

\* GET /api/dashboard; json.anyOf are the bodies it may answer with
Dashboard(st, sess, token, t) ==
    LET auth == authenticateToken(token, t)
    IN IF auth.status # 200 THEN Refused(st, sess, auth)
       ELSE IF getCases(st) = {}
       THEN AuthReply(st, sess, 500, [message |-> "Internal server error"])
       ELSE AuthReply(st, sess, 200, [anyOf |-> DashboardJson(st, t)])

\* GET /api/cases; json.anyOf are the lists it may answer with
GetCases(st, sess, token, t) ==
    LET auth == authenticateToken(token, t)
    IN IF auth.status # 200 THEN Refused(st, sess, auth)
       ELSE IF getCases(st) = {}
       THEN AuthReply(st, sess, 500, [message |-> "Internal server error"])
       ELSE AuthReply(st, sess, 200, [anyOf |-> getCases(st)])

\* the /api/cases routes behind authenticateToken; req.user is the token's payload
AuthGetCase(st, sess, token, caseId, t) ==
    LET auth == authenticateToken(token, t)
    IN IF auth.status # 200 THEN Refused(st, sess, auth)
       ELSE Behind(sess, GetCaseRoute(st, caseId))

AuthPostCases(st, sess, token, body, t) ==
    LET auth == authenticateToken(token, t)
    IN IF auth.status # 200 THEN Refused(st, sess, auth)
       ELSE Behind(sess, PostCases(st, body, auth.user.id, t))

AuthPutCase(st, sess, token, caseId, body, t) ==
    LET auth == authenticateToken(token, t)
    IN IF auth.status # 200 THEN Refused(st, sess, auth)
       ELSE Behind(sess, PutCase(st, caseId, body, auth.user.id, t))

AuthDeleteCase(st, sess, token, caseId, t) ==
    LET auth == authenticateToken(token, t)
    IN IF auth.status # 200 THEN Refused(st, sess, auth)
       ELSE Behind(sess, DeleteCaseRoute(st, caseId))

AuthPostNote(st, sess, token, caseId, body, t) ==
    LET auth == authenticateToken(token, t)
    IN IF auth.status # 200 THEN Refused(st, sess, auth)
       ELSE Behind(sess, PostNote(st, caseId, body, auth.user.id, t))

AuthPostService(st, sess, token, caseId, body, t) ==
    LET auth == authenticateToken(token, t)
    IN IF auth.status # 200 THEN Refused(st, sess, auth)
       ELSE Behind(sess, PostService(st, caseId, body, t))

\* ------------------------------------------------------------- the browser
\* the AuthProvider before it is mounted: useState(null), no authToken in
\* localStorage, neither checkAuth nor login running
NoClient ==
    [user |-> Null, authToken |-> Null, checkAuth |-> [at |-> "idle"],
     login |-> [at |-> "idle"]]

\* what a fetch settles with: the response of the server, or a rejection
\* when the request does not get through
NetworkError == [status |-> 0, json |-> <<>>]
Response(reply) == [status |-> reply.status, json |-> reply.json]

\* response.ok
Ok(response) == response.status \in 200..299

\* what the fetch of /api/auth/me may settle with: a rejection, the answer of
\* the handler, or its 500 when getUser rejects on a lost connection
MeOutcomes(st, sess, token, t) ==
    {NetworkError, Response(Me(st, sess, token, t))}
    \cup (IF st.backend = "db" THEN {[status |-> 500, json |-> [message |-> "Internal server error"]]}
          ELSE {})

\* checkAuth up to its fetch: localStorage.getItem("authToken"), and without
\* a token nothing but setIsLoading(false)
CheckAuthStart(c) ==
    IF c.authToken = Null THEN [c EXCEPT !.checkAuth = [at |-> "done"]]
    ELSE [c EXCEPT !.checkAuth = [at |-> "fetch", token |-> c.authToken]]

\* checkAuth after its fetch settled: setUser on an OK response, removeItem
\* on any other response and in the catch
CheckAuthSettled(c, response) ==
    IF Ok(response) THEN [c EXCEPT !.user = response.json, !.checkAuth = [at |-> "done"]]
    ELSE [c EXCEPT !.authToken = Null, !.checkAuth = [at |-> "done"]]

\* login(username, password) up to its request
LoginStart(c, body) == [c EXCEPT !.login = [at |-> "post", body |-> body]]

\* login after its POST settled: apiRequest rejects unless the response is
\* OK, and login rethrows; otherwise setItem("authToken", data.token),
\* setUser(data.user), and the verifying request
LoginPosted(c, response) ==
    IF ~Ok(response) THEN [c EXCEPT !.login = [at |-> "rejected"]]
    ELSE [c EXCEPT !.authToken = response.json.token, !.user = response.json.user,
                   !.login = [at |-> "verify", token |-> response.json.token]]

\* login after the verifying fetch settled: it throws unless the response is OK
LoginVerified(c, response) ==
    [c EXCEPT !.login = [at |-> IF Ok(response) THEN "resolved" ELSE "rejected"]]

\* ------------------------------------------------------------ request inputs
\* the users the seeding routines create, in the order they create them
SeedUsers ==
    <<[username |-> "admin", password |-> Hash("admin123"), fullName |-> "Admin User",
       position |-> "System Administrator", office |-> "VAWC Office"],
      [username |-> "jdelacruz", password |-> Hash("password"), fullName |-> "Juan Dela Cruz",
       position |-> "VAWC Coordinator", office |-> "Municipal Social Welfare Department"],
      [username |-> "rmanalo", password |-> Hash("password"), fullName |-> "Rose Manalo",
       position |-> "Social Worker", office |-> "Municipal Social Welfare Department"]>>

\* the first sample cases of the seeding routines: the case (encoded by the
\* n-th user), its services and its note; every sample date is IncidentTime
SampleCases ==
    <<[victimName |-> "Maria Santos", perpetratorName |-> "Pedro Santos",
       barangay |-> "Barangay Poblacion", incidentType |-> "Physical abuse",
       status |-> "active", priority |-> "High",
       services |-> <<[type |-> "Medical assistance", provider |-> "Municipal Health Office",
                       notes |-> "Initial medical examination conducted"]>>,
       note |-> "Victim reported multiple physical abuse incidents in the past 3 months"],
      [victimName |-> "Ana Reyes", perpetratorName |-> "Roberto Garcia",
       barangay |-> "Barangay San Jose", incidentType |-> "Verbal abuse",
       status |-> "pending", priority |-> "Medium",
       services |-> <<[type |-> "Legal assistance", provider |-> "Municipal Legal Office",
                       notes |-> "Provided legal advice and assisted in filing protection order"],
                      [type |-> "Counseling", provider |-> "DSWD Counselor",
                       notes |-> "Initial psychological assessment conducted"]>>,
       note |-> "Victim seeking protection order against ex-partner"]>>

\* the payload createInitialData (MemStorage) and seedDatabase (DBStorage)
\* hand to createCase for the n-th sample
SampleCaseData(st, n) ==
    LET sample == SampleCases[n]
        encoder == st.users[n]
    IN IF st.backend = "mem"
       THEN [dateReported |-> IncidentTime, entryDate |-> IncidentTime,
             victimName |-> sample.victimName, perpetratorName |-> sample.perpetratorName,
             barangay |-> sample.barangay, status |-> sample.status,
             encoderId |-> encoder.id, encoderName |-> encoder.fullName,
             encoderPosition |-> encoder.position, encoderOffice |-> encoder.office]
       ELSE [incidentDate |-> IncidentTime, victimName |-> sample.victimName,
             incidentType |-> sample.incidentType, perpetratorName |-> sample.perpetratorName,
             status |-> sample.status, priority |-> sample.priority,
             encoderName |-> encoder.fullName]

\* the case ids a request may name (each is unknown to the store before its
\* case is created and after it is deleted)
CaseIds == 1..MaxCaseId

Entry(type, selected) == [type |-> type, selected |-> selected]
ServicesArray(items) == [isArray |-> TRUE, items |-> items]
\* a services field that is no array (a string, an object)
ServicesNoArray == [isArray |-> FALSE, items |-> <<>>]

ServicesValues ==
    {ServicesNoArray,
     ServicesArray(<<Entry("Medical assistance", TRUE), Entry("Counseling", FALSE)>>),
     ServicesArray(<<Entry("Medical assistance", TRUE), Entry("Counseling", TRUE)>>)}

\* the optional parts of a case form: services and caseNotes
FormExtras ==
    {<<>>, [caseNotes |-> ""]}
    \cup {[services |-> sv] : sv \in ServicesValues}
    \cup {[services |-> sv, caseNotes |-> "Initial report"] : sv \in ServicesValues}

ValidCase(status) ==
    [victimName |-> "Maria Santos", incidentType |-> "Physical abuse",
     perpetratorName |-> "Pedro Santos", encoderName |-> "Admin User",
     status |-> status, incidentDate |-> GoodDateString]

\* bodies of POST /api/cases: the valid forms, and forms with one defect
PostBodies ==
    {Spread(ValidCase("active"), x) : x \in FormExtras}
    \cup {Delete(ValidCase("active"), {k}) : k \in {"victimName", "incidentDate"}}
    \cup {Spread(ValidCase("active"), d) :
            d \in {[perpetratorName |-> JsonNumber], [status |-> "archived"],
                   [incidentDate |-> BadDateString]}}

\* bodies of PUT /api/cases/:id: any subset of fields, raw JSON
PutFields ==
    {<<>>, [status |-> "closed"], [status |-> "archived"], [victimName |-> JsonNumber],
     [id |-> MaxCaseId + 1]}

PutBodies == PutFields \cup FormExtras

NoteBodies == {<<>>, [content |-> "Follow-up visit"]}

ServiceBodies ==
    {[type |-> "Legal assistance", provider |-> "Municipal Legal Office"],
     [type |-> "Legal assistance", provider |-> "Municipal Legal Office",
      dateProvided |-> GoodDateString]}

\* ------------------------------------------------------------------ actions
\* the counters stay within the bounds of the model
WithinBounds(st) ==
    /\ st.currentUserId <= MaxUserId + 1
    /\ st.currentCaseId <= MaxCaseId + 1
    /\ st.currentServiceId <= MaxServiceId + 1
    /\ st.currentNoteId <= MaxNoteId + 1

\* the store becomes st
StoreBecomes(st) ==
    /\ users' = st.users
    /\ cases' = st.cases
    /\ services' = st.services
    /\ notes' = st.notes
    /\ currentUserId' = st.currentUserId
    /\ currentCaseId' = st.currentCaseId
    /\ currentServiceId' = st.currentServiceId
    /\ currentNoteId' = st.currentNoteId
    /\ UNCHANGED backend

SetStore(st) == WithinBounds(st) /\ StoreBecomes(st)

\* a step of the server: the store a handler or a storage call leaves
\* behind becomes the store; `created` are the ids createCase returned in it
Step(st, created) ==
    /\ SetStore(st)
    /\ issuedCaseIds' = issuedCaseIds \cup created
    /\ UNCHANGED <<now, twin, session, tokens, aside>>

\* the empty store of a backend, as the constructor leaves it
EmptyStore(b) ==
    [backend |-> b, users |-> <<>>, cases |-> <<>>, services |-> <<>>, notes |-> <<>>,
     currentUserId |-> 1, currentCaseId |-> 1, currentServiceId |-> 1, currentNoteId |-> 1]

\* the seeding routine: createUser for the first n users of its list
RECURSIVE SeedUsersInto(_, _, _)
SeedUsersInto(st, n, t) ==
    IF n = 0 THEN st
    ELSE LET before == SeedUsersInto(st, n - 1, t)
         IN createUser(before, SeedUsers[n], t).st

\* the services of a sample case, added one after the other
RECURSIVE AddSampleServices(_, _, _, _)
AddSampleServices(st, list, caseId, t) ==
    IF list = <<>> THEN st
    ELSE LET serviceData == Spread(Head(list), [dateProvided |-> IncidentTime,
                                                caseId |-> caseId])
         IN AddSampleServices(addService(st, serviceData, t).st, Tail(list), caseId, t)

\* the seeding routine continued: the first n sample cases, each with its
\* services and its note by the user who encoded it
RECURSIVE SeedCasesInto(_, _, _)
SeedCasesInto(st, n, t) ==
    IF n = 0 THEN st
    ELSE LET before == SeedCasesInto(st, n - 1, t)
             created == createCase(before, SampleCaseData(before, n), t)
             withServices == AddSampleServices(created.st, SampleCases[n].services,
                                               created.ret.id, t)
         IN addNote(withServices, [content |-> SampleCases[n].note, authorId |-> n,
                                   caseId |-> created.ret.id], t).st

\* the server on the store st, no request served yet
InitServer(st) ==
    /\ backend = st.backend
    /\ users = st.users
    /\ cases = st.cases
    /\ services = st.services
    /\ notes = st.notes
    /\ currentUserId = st.currentUserId
    /\ currentCaseId = st.currentCaseId
    /\ currentServiceId = st.currentServiceId
    /\ currentNoteId = st.currentNoteId
    /\ now = 1
    /\ issuedCaseIds = DOMAIN st.cases
    /\ twin = EmptyStore("db")
    /\ session = NoSession
    /\ pending = <<>>

InitStore(st) ==
    /\ InitServer(st)
    /\ tokens = {}
    /\ client = NoClient

\* the server starts on either backend with its users seeded, and with the
\* first sample cases or (the cases table of seed.ts, which seeds users only)
\* with none
Init ==
    \E b \in {"mem", "db"}, n \in 0..MaxSeedCases :
        InitStore(SeedCasesInto(SeedUsersInto(EmptyStore(b), MaxUserId, 1), n, 1))

\* the ids createCase returned while a handler ran from `before` to `after`
\* (a createCase that returns has stored its case under the id it returns)
CreatedIds(before, after) ==
    {i \in DOMAIN after.cases : i >= before.currentCaseId /\ i < after.currentCaseId}

\* the users a request may come from (req.user.id, the id in the token).
\* A handler reads it only for the note it writes, so a request that
\* writes none is the same step whoever sends it: the first user sends it.
Actors(body, noteField) ==
    IF Falsy(body, noteField)
    THEN {CHOOSE u \in DOMAIN users : \A v \in DOMAIN users : u <= v}
    ELSE DOMAIN users

\* the requests of an authenticated user
PostCasesReq ==
    \E body \in PostBodies : \E userId \in Actors(body, "caseNotes") :
        LET reply == PostCases(Store, body, userId, now)
        IN Step(reply.st, CreatedIds(Store, reply.st))

PutCaseReq ==
    \E id \in CaseIds, body \in PutBodies : \E userId \in Actors(body, "caseNotes") :
        Step(PutCase(Store, id, body, userId, now).st, {})

DeleteCaseReq ==
    \E id \in CaseIds : Step(DeleteCaseRoute(Store, id).st, {})

GetCaseReq ==
    \E id \in CaseIds : Step(GetCaseRoute(Store, id).st, {})

PostNoteReq ==
    \E id \in CaseIds, body \in NoteBodies : \E userId \in Actors(body, "content") :
        Step(PostNote(Store, id, body, userId, now).st, {})

PostServiceReq ==
    \E id \in CaseIds, body \in ServiceBodies :
        Step(PostService(Store, id, body, now).st, {})

Next ==
    \/ PostCasesReq
    \/ PutCaseReq
    \/ DeleteCaseReq
    \/ GetCaseReq
    \/ PostNoteReq
    \/ PostServiceReq

\* the REST server: requests handled one after the other
Spec == Init /\ [][Next]_vars

\* --------------------------------------------- the storage contract, called directly
\* InsertCase values (status is any string to the storage layer)
InsertCases ==
    {[victimName |-> "Maria Santos", incidentType |-> "Physical abuse",
      perpetratorName |-> "Pedro Santos", encoderName |-> "Admin User",
      status |-> s, incidentDate |-> IncidentTime] :
        s \in {"active", "pending", "archived"}}

\* Partial<InsertCase> values
UpdatePayloads == {<<>>, [status |-> "closed"], [victimName |-> "Ana Reyes"]}

InsertServices ==
    {[type |-> "Counseling", dateProvided |-> IncidentTime, provider |-> "DSWD Counselor",
      caseId |-> c] : c \in CaseIds}

InsertNotes ==
    {[content |-> "Follow-up visit", authorId |-> 1, caseId |-> c] : c \in CaseIds}

Usernames == {"admin", "jdelacruz", "nobody"}
Passwords == {"admin123", "password", JsonNumber}

CallCreateCase ==
    \E caseData \in InsertCases :
        LET r == createCase(Store, caseData, now)
        IN Step(r.st, IF r.threw THEN {} ELSE {r.ret.id})

CallUpdateCase ==
    \E id \in CaseIds, caseData \in UpdatePayloads : Step(updateCase(Store, id, caseData, now).st, {})

CallDeleteCase ==
    \E id \in CaseIds : Step(deleteCase(Store, id).st, {})

CallAddService ==
    \E serviceData \in InsertServices : Step(addService(Store, serviceData, now).st, {})

CallAddNote ==
    \E noteData \in InsertNotes : Step(addNote(Store, noteData, now).st, {})

CallValidateUser ==
    \E username \in Usernames, password \in Passwords :
        Step(validateUser(Store, username, password).st, {})

NextStorage ==
    \/ CallCreateCase
    \/ CallUpdateCase
    \/ CallDeleteCase
    \/ CallAddService
    \/ CallAddNote
    \/ CallValidateUser

\* any caller of the storage contract
SpecStorage == Init /\ [][NextStorage]_vars

\* --------------------------------- the two backends given the same calls
\* InsertUser values: the seeded users (a username may be inserted twice)
InsertUsers == {SeedUsers[i] : i \in 1..MaxUserId}

\* InsertCase values, one of them with the optional barangay and priority
TwinCases ==
    InsertCases
    \cup {[victimName |-> "Maria Santos", incidentType |-> "Physical abuse",
            perpetratorName |-> "Pedro Santos", encoderName |-> "Admin User",
            status |-> "active", incidentDate |-> IncidentTime,
            barangay |-> "Barangay Poblacion", priority |-> "High"]}

\* an empty MemStorage (the store) and an empty DBStorage (the twin)
InitTwin == InitStore(EmptyStore("mem"))

\* the same call made on both: `mem` and `db` are its two outcomes
TwinStep(mem, db, created) ==
    /\ SetStore(mem.st)
    /\ WithinBounds(db.st)
    /\ twin' = db.st
    /\ issuedCaseIds' = issuedCaseIds \cup created
    /\ UNCHANGED <<now, session, tokens, aside>>

TwinCreateUser ==
    \E insertUser \in InsertUsers :
        TwinStep(createUser(Store, insertUser, now), createUser(twin, insertUser, now), {})

TwinCreateCase ==
    \E caseData \in TwinCases :
        LET r == createCase(Store, caseData, now)
        IN TwinStep(r, createCase(twin, caseData, now), {r.ret.id})

TwinUpdateCase ==
    \E id \in CaseIds, caseData \in UpdatePayloads :
        TwinStep(updateCase(Store, id, caseData, now), updateCase(twin, id, caseData, now), {})

TwinDeleteCase ==
    \E id \in CaseIds : TwinStep(deleteCase(Store, id), deleteCase(twin, id), {})

TwinAddService ==
    \E serviceData \in InsertServices :
        TwinStep(addService(Store, serviceData, now), addService(twin, serviceData, now), {})

TwinAddNote ==
    \E noteData \in InsertNotes :
        TwinStep(addNote(Store, noteData, now), addNote(twin, noteData, now), {})

NextTwin ==
    \/ TwinCreateUser
    \/ TwinCreateCase
    \/ TwinUpdateCase
    \/ TwinDeleteCase
    \/ TwinAddService
    \/ TwinAddNote

\* one sequence of storage calls applied to a MemStorage and to a DBStorage
SpecTwin == InitTwin /\ [][NextTwin]_vars

\* ------------------------------------------------- the server with its clients
\* login bodies: every pairing of the usernames and passwords, and one
\* without a password
LoginBodies ==
    {[username |-> u, password |-> p] : u \in Usernames, p \in Passwords}
    \cup {[username |-> "admin"]}

\* tokens no login answered with: signed with a key that is not the server's,
\* or a token of the server with its expiry or its user changed afterwards
Forged ==
    {JwtSign(TokenPayload(users[u]), "forged-key", now) : u \in DOMAIN users}
    \cup {[k EXCEPT !.exp = @ + ExpiresIn] : k \in tokens}
    \cup {[k EXCEPT !.payload.username = "nobody"] : k \in tokens}

\* the bearer tokens a request may carry
Presented == tokens \cup Forged

\* a step of the server that may change the session and answer with a token
AuthStep(reply, issued) ==
    /\ SetStore(reply.st)
    /\ session' = reply.session
    /\ tokens' = tokens \cup issued
    /\ Cardinality(tokens') <= MaxTokens
    /\ UNCHANGED <<now, twin, issuedCaseIds, aside>>

LoginReq ==
    \E body \in LoginBodies :
        LET reply == Login(Store, session, body, now)
        IN AuthStep(reply, IF reply.status = 200 THEN {reply.json.token} ELSE {})

LogoutReq == AuthStep(Logout(Store, session), {})

MeReq == \E token \in Presented \cup {NoToken} : AuthStep(Me(Store, session, token, now), {})

DashboardReq ==
    \E token \in Presented \cup {NoToken} :
        AuthStep(Dashboard(Store, session, token, now), {})

GetCasesReq ==
    \E token \in Presented \cup {NoToken} :
        AuthStep(GetCases(Store, session, token, now), {})

AuthDeleteCaseReq ==
    \E token \in Presented \cup {NoToken}, id \in CaseIds :
        AuthStep(AuthDeleteCase(Store, session, token, id, now), {})

\* time passes
Tick ==
    /\ now + ClockStep <= MaxNow
    /\ now' = now + ClockStep
    /\ UNCHANGED <<backend, users, cases, services, notes, currentUserId, currentCaseId,
                   currentServiceId, currentNoteId, issuedCaseIds, twin, session, tokens,
                   aside>>

NextAuth ==
    \/ LoginReq
    \/ LogoutReq
    \/ MeReq
    \/ DashboardReq
    \/ GetCasesReq
    \/ AuthDeleteCaseReq
    \/ Tick

\* the server with clients that log in, log out and present tokens, over time
SpecAuth == Init /\ [][NextAuth]_vars

\* ------------------------------------------------------ listings over time
\* the store of a backend after the users were seeded, before any case
InitList == \E b \in {"mem", "db"} : InitStore(SeedUsersInto(EmptyStore(b), MaxUserId, 1))

\* the cases that notes and services are added to
ListedCaseIds == {1, 2}

\* the two dates services are provided on
DatesProvided == {IncidentTime, IncidentTime + 1}

\* a storage call that returned: its store becomes the store
ListStep(r) ==
    /\ ~r.threw
    /\ r.st.currentCaseId <= MaxListed + 1
    /\ (r.st.currentNoteId - 1) + (r.st.currentServiceId - 1) <= MaxListed
    /\ StoreBecomes(r.st)
    /\ issuedCaseIds' = issuedCaseIds
    /\ UNCHANGED <<now, twin, session, tokens, aside>>

ListCreateCase ==
    \E caseData \in {c \in InsertCases : c.status = "active"} :
        ListStep(createCase(Store, caseData, now))

ListAddNote ==
    \E c \in ListedCaseIds :
        ListStep(addNote(Store, [content |-> "Follow-up visit", authorId |-> 1, caseId |-> c],
                         now))

ListAddService ==
    \E c \in ListedCaseIds, d \in DatesProvided :
        ListStep(addService(Store, [type |-> "Counseling", dateProvided |-> d,
                                    provider |-> "DSWD Counselor", caseId |-> c], now))

NextList ==
    \/ ListCreateCase
    \/ ListAddNote
    \/ ListAddService
    \/ Tick

\* cases, notes and services stored over time, some within one reading of the clock
SpecList == InitList /\ [][NextList]_vars

\* ------------------------------------------------------ the dashboard's store
DashCaseIds == 1..MaxDashCases

\* a storage call that returned: its store becomes the store
DashStep(r) ==
    /\ ~r.threw
    /\ r.st.currentCaseId <= MaxDashCases + 1
    /\ r.st.currentNoteId <= MaxDashNotes + 1
    /\ StoreBecomes(r.st)
    /\ issuedCaseIds' = issuedCaseIds
    /\ UNCHANGED <<now, twin, session, tokens, aside>>

DashCreateCase ==
    \E caseData \in {c \in InsertCases : c.status = "active"} :
        DashStep(createCase(Store, caseData, now))

DashDeleteCase == \E id \in DashCaseIds : DashStep(deleteCase(Store, id))

NextDash ==
    \/ DashCreateCase
    \/ DashDeleteCase
    \/ Tick

\* more cases than the dashboard shows, created and deleted over time
SpecDash == InitList /\ [][NextDash]_vars

\* ------------------------------------------------ the notes behind the feed
\* the store of a backend after its seeding routine stored one sample case
InitFeed ==
    \E b \in {"mem", "db"} :
        InitStore(SeedCasesInto(SeedUsersInto(EmptyStore(b), MaxUserId, 1), 1, 1))

FeedAddNote ==
    \E c \in ListedCaseIds, userId \in {1, MaxUserId} :
        DashStep(addNote(Store, [content |-> "Follow-up visit", authorId |-> userId,
                                 caseId |-> c], now))

NextFeed ==
    \/ FeedAddNote
    \/ Tick

\* more notes than the feed shows, added over time
SpecFeed == InitFeed /\ [][NextFeed]_vars

\* ----------------------------------- the server of the schema-validated routes
\* these routes use the MemStorage whatever DATABASE_URL is
InitSchema ==
    \E n \in 0..MaxSeedCases :
        InitStore(SeedCasesInto(SeedUsersInto(EmptyStore("mem"), MaxUserId, 1), n, 1))

PostCasesSchemaReq ==
    \E body \in PostBodies : \E userId \in Actors(body, "caseNotes") :
        Step(PostCasesSchema(Store, body, userId, now).st, {})

PutCaseSchemaReq ==
    \E id \in CaseIds, body \in PutBodies : Step(PutCaseSchema(Store, id, body, now).st, {})

NextSchema ==
    \/ PostCasesSchemaReq
    \/ PutCaseSchemaReq
    \/ DeleteCaseReq
    \/ GetCaseReq
    \/ PostNoteReq
    \/ PostServiceReq
    \/ Tick

SpecSchema == InitSchema /\ [][NextSchema]_vars

\* ------------------------------------- the server on a connection that fails
\* the most inserts of services and notes a request makes before its
\* connection fails
MaxWrites == 2

\* case forms with selected services and case notes
FullForms ==
    {Spread(ValidCase("active"), [services |-> sv, caseNotes |-> "Initial report"]) :
        sv \in {s \in ServicesValues : s.isArray}}

\* the store a handler leaves behind, without the count of its connection
Kept(st) == Delete(st, {"writesLeft"})

PostCasesFailingReq ==
    \E body \in FullForms, n \in 0..MaxWrites : \E userId \in Actors(body, "caseNotes") :
        LET reply == PostCases(FailingAfter(Store, n), body, userId, now)
        IN Step(Kept(reply.st), CreatedIds(Store, reply.st))

PutFieldsReq ==
    \E id \in CaseIds, body \in PutFields : \E userId \in Actors(body, "caseNotes") :
        Step(PutCase(Store, id, body, userId, now).st, {})

NextFailing ==
    \/ PostCasesFailingReq
    \/ PutFieldsReq
    \/ DeleteCaseReq
    \/ Tick

\* the server whose connection to the database may fail within a request
SpecFailing == Init /\ [][NextFailing]_vars

\* ------------------------------------------ PUT requests that run interleaved
\* the most PUT requests in flight at once, and the most services they insert
MaxRequests == 2
MaxRaceServices == 3

\* a store that holds the seeded users and one case without services
InitRace ==
    \E b \in {"mem", "db"} :
        InitStore(createCase(SeedUsersInto(EmptyStore(b), MaxUserId, 1),
                             CaseDataOf(ValidCase("active")), 1).st)

\* bodies with a services list: one selected type, the same type selected
\* twice, and another type
RaceBodies ==
    {[status |-> "pending", services |-> ServicesArray(items)] :
        items \in {<<Entry("Counseling", TRUE)>>,
                   <<Entry("Counseling", TRUE), Entry("Counseling", TRUE)>>,
                   <<Entry("Medical assistance", TRUE), Entry("Counseling", FALSE)>>}}

\* a step of a handler that is not its last: the store and the requests in flight
RaceStep(st, inflight) ==
    /\ st.currentServiceId <= MaxRaceServices + 1
    /\ StoreBecomes(st)
    /\ pending' = inflight
    /\ UNCHANGED <<now, issuedCaseIds, twin, session, tokens, client>>

\* the handler up to its first query of the services: the field checks (which
\* these bodies pass) and await updateCase; a missing case is answered 404
PutUpdate(r) ==
    \E id \in CaseIds, body \in RaceBodies :
        LET updated == updateCase(Store, id, CaseDataOf(body), now)
        IN /\ r \notin DOMAIN pending
           /\ IF updated.threw \/ updated.ret = Undefined
              THEN RaceStep(updated.st, pending)
              ELSE RaceStep(updated.st,
                            r :> [at |-> "getCaseServices", caseId |-> id, body |-> body,
                                  updatedCase |-> updated.ret] @@ pending)

\* await getCaseServices(caseId): the types the case has now
PutGetCaseServices(r) ==
    /\ r \in DOMAIN pending
    /\ pending[r].at = "getCaseServices"
    /\ RaceStep(Store,
                [pending EXCEPT ![r] =
                    Spread(@, [at |-> "addService",
                               serviceTypes |-> SelectedTypes(@.body.services.items),
                               existingTypes |-> {services[s].type :
                                                     s \in getCaseServices(Store, @.caseId)}])])

\* one round of the loop: await addService for a type that was not read as existing
PutAddService(r) ==
    /\ r \in DOMAIN pending
    /\ pending[r].at = "addService"
    /\ pending[r].serviceTypes # <<>>
    /\ LET req == pending[r]
           type == Head(req.serviceTypes)
           provider == IF Falsy(req.body, "encoderName") THEN req.updatedCase.encoderName
                       ELSE req.body.encoderName
           added == addService(Store, [type |-> type, dateProvided |-> now,
                                       provider |-> provider, caseId |-> req.caseId], now)
           rest == [pending EXCEPT ![r].serviceTypes = Tail(@)]
       IN IF type \in req.existingTypes THEN RaceStep(Store, rest)
          ELSE IF added.threw THEN RaceStep(added.st, Delete(pending, {r}))
          ELSE RaceStep(added.st, rest)

\* after the loop: the note of a truthy caseNotes, and the response
PutRespond(r) ==
    /\ r \in DOMAIN pending
    /\ pending[r].at = "addService"
    /\ pending[r].serviceTypes = <<>>
    /\ \E userId \in Actors(pending[r].body, "caseNotes") :
        RaceStep(AddCaseNote(Store, pending[r].body, userId, pending[r].caseId, now, 200,
                             pending[r].updatedCase).st,
                 Delete(pending, {r}))

NextRace ==
    \E r \in 1..MaxRequests :
        \/ PutUpdate(r)
        \/ PutGetCaseServices(r)
        \/ PutAddService(r)
        \/ PutRespond(r)

\* PUT /api/cases/:id requests whose handlers interleave at their awaits
SpecRace == InitRace /\ [][NextRace]_vars

\* ------------------------------------------------- updates with raw bodies
\* bodies of PUT /api/cases/:id that carry a createdAt, as JSON carries it
CreatedAtBodies ==
    {<<>>, [status |-> "closed"], [createdAt |-> DateString],
     [createdAt |-> DateString, status |-> "closed"]}

\* the store a request leaves behind becomes the store
UpdatesStep(st) ==
    /\ st.currentCaseId <= MaxListed + 1
    /\ StoreBecomes(st)
    /\ UNCHANGED <<now, issuedCaseIds, twin, session, tokens, aside>>

CreateReq == UpdatesStep(PostCases(Store, ValidCase("active"), 1, now).st)

PutCreatedAtReq ==
    \E id \in ListedCaseIds, body \in CreatedAtBodies :
        \E userId \in Actors(body, "caseNotes") :
            UpdatesStep(PutCase(Store, id, body, userId, now).st)

NextUpdates ==
    \/ CreateReq
    \/ PutCreatedAtReq
    \/ Tick

\* cases created over time and updated with raw bodies
SpecUpdates == InitList /\ [][NextUpdates]_vars

\* ------------------------------------------------- the browser and the server
\* the tokens localStorage may hold when the page is loaded: one of an earlier
\* login of the first user that has expired, one of the last user that is valid
StoredTokens ==
    {JwtSign(TokenPayload(users[1]), JWT_SECRET, 1 - ExpiresIn),
     JwtSign(TokenPayload(users[MaxUserId]), JWT_SECRET, 1)}

\* the credentials a user types: right ones and wrong ones
TypedLogins ==
    {[username |-> "admin", password |-> "admin123"],
     [username |-> "admin", password |-> "password"]}

InitClient ==
    /\ \E b \in {"mem", "db"} : InitServer(SeedUsersInto(EmptyStore(b), MaxUserId, 1))
    /\ tokens = StoredTokens
    /\ \E stored \in StoredTokens \cup {Null} : client = [NoClient EXCEPT !.authToken = stored]

\* a step of the browser; the server may have served a login for it
ClientStep(c, sess, issued) ==
    /\ client' = c
    /\ session' = sess
    /\ tokens' = tokens \cup issued
    /\ Cardinality(tokens') <= Cardinality(StoredTokens) + MaxTokens
    /\ UNCHANGED <<backend, users, cases, services, notes, currentUserId, currentCaseId,
                   currentServiceId, currentNoteId, now, issuedCaseIds, twin, pending>>

\* the AuthProvider is mounted: its effect runs checkAuth
Mount ==
    /\ client.checkAuth.at = "idle"
    /\ ClientStep(CheckAuthStart(client), session, {})

CheckAuthSettles ==
    /\ client.checkAuth.at = "fetch"
    /\ \E response \in MeOutcomes(Store, session, client.checkAuth.token, now) :
        ClientStep(CheckAuthSettled(client, response), session, {})

\* the login form is submitted (the page is rendered, so the effect has run)
Submit ==
    /\ client.checkAuth.at # "idle"
    /\ client.login.at \in {"idle", "rejected"}
    /\ \E body \in TypedLogins : ClientStep(LoginStart(client, body), session, {})

\* the POST of login settles: the request is lost, or the server answers it
LoginPostSettles ==
    /\ client.login.at = "post"
    /\ \/ ClientStep(LoginPosted(client, NetworkError), session, {})
       \/ LET reply == Login(Store, session, client.login.body, now)
          IN ClientStep(LoginPosted(client, Response(reply)), reply.session,
                        IF reply.status = 200 THEN {reply.json.token} ELSE {})

LoginVerifySettles ==
    /\ client.login.at = "verify"
    /\ \E response \in MeOutcomes(Store, session, client.login.token, now) :
        ClientStep(LoginVerified(client, response), session, {})

NextClient ==
    \/ Mount
    \/ CheckAuthSettles
    \/ Submit
    \/ LoginPostSettles
    \/ LoginVerifySettles
    \/ Tick

\* one browser whose AuthProvider runs checkAuth and login against the server
SpecClient == InitClient /\ [][NextClient]_vars

\* ------------------------------------------------------------------- seeding
\* the inserts seedDatabase makes for the n-th sample case, in its order: the
\* case, its services, its note
SampleInserts(n) ==
    <<[insert |-> "case", n |-> n, k |-> 0]>>
    \o [k \in 1..Len(SampleCases[n].services) |-> [insert |-> "service", n |-> n, k |-> k]]
    \o <<[insert |-> "note", n |-> n, k |-> 0]>>

RECURSIVE CaseInserts(_)
CaseInserts(n) == IF n = 0 THEN <<>> ELSE CaseInserts(n - 1) \o SampleInserts(n)

\* every insert of seedDatabase: the users, then the sample cases
SeedInserts ==
    [n \in 1..Len(SeedUsers) |-> [insert |-> "user", n |-> n, k |-> 0]]
    \o CaseInserts(Len(SampleCases))

\* one insert of seedDatabase; a service and a note go to the case the routine
\* created last, a note is written by the user who encoded the case
SeedInsert(st, w, t) ==
    LET caseId == CHOOSE c \in DOMAIN st.cases : \A d \in DOMAIN st.cases : d <= c
    IN CASE w.insert = "user" -> createUser(st, SeedUsers[w.n], t).st
         [] w.insert = "case" -> createCase(st, SampleCaseData(st, w.n), t).st
         [] w.insert = "service" ->
                addService(st, Spread(SampleCases[w.n].services[w.k],
                                      [dateProvided |-> IncidentTime, caseId |-> caseId]), t).st
         [] w.insert = "note" ->
                addNote(st, [content |-> SampleCases[w.n].note,
                             authorId |-> getUserByUsername(st, SeedUsers[w.n].username).id,
                             caseId |-> caseId], t).st

RECURSIVE SeedRun(_, _, _)
SeedRun(st, inserts, t) ==
    IF inserts = <<>> THEN st
    ELSE SeedRun(SeedInsert(st, Head(inserts), t), Tail(inserts), t)

\* DBStorage.seedDatabase, the process ending after `stop` of its inserts
\* (all of them: the routine returns); it makes none when a user exists
seedDatabase(st, stop, t) ==
    IF DOMAIN st.users # {} THEN st
    ELSE SeedRun(st, SubSeq(SeedInserts, 1, stop), t)

\* the users seed.ts inserts, in its order
SeedTsUsers ==
    <<[username |-> "admin", password |-> Hash("admin123"), fullName |-> "Admin User",
       position |-> "System Administrator", office |-> "VAWC Office",
       role |-> "administrator"],
      [username |-> "editor", password |-> Hash("editor123"), fullName |-> "Editor User",
       position |-> "Case Encoder", office |-> "VAWC Office", role |-> "editor"]>>

RECURSIVE InsertEach(_, _, _)
InsertEach(st, list, t) ==
    IF list = <<>> THEN st
    ELSE InsertEach(createUser(st, Head(list), t).st, Tail(list), t)

\* seedUsers of seed.ts, the process ending after `stop` of its inserts
seedUsers(st, stop, t) ==
    IF DOMAIN st.users # {} THEN st
    ELSE InsertEach(st, SubSeq(SeedTsUsers, 1, stop), t)

\* the database before its first setup
InitSeed == InitStore(EmptyStore("db"))

\* what a seeding run leaves behind becomes the store
SeedStep(st) ==
    /\ StoreBecomes(st)
    /\ issuedCaseIds' = DOMAIN st.cases
    /\ UNCHANGED <<now, twin, session, tokens, aside>>

\* setupDatabase: the tables exist or are created, then seedDatabase runs
SetupDatabase ==
    \E stop \in 0..Len(SeedInserts) : SeedStep(seedDatabase(Store, stop, now))

\* the seeding of seed.ts runs on the tables
RunSeedUsers ==
    \E stop \in 0..Len(SeedTsUsers) : SeedStep(seedUsers(Store, stop, now))

NextSeed ==
    \/ SetupDatabase
    \/ RunSeedUsers
    \/ Tick

\* runs of the setup on one database, each of them possibly cut short
SpecSeed == InitSeed /\ [][NextSeed]_vars

\* ------------------------------------------------------------------ properties
\* Each property below speaks of the handlers and storage methods applied to
\* the current store: the actions above take exactly these steps.

\* C1: deleting an existing case succeeds (deleteCase returns true, DELETE
\* answers 200), and after a successful delete getCase(id) is undefined, GET
\* answers 404, and the case has no services and no notes left, on both backends.
C1_DeleteCascades ==
    \A id \in CaseIds :
        LET deleted == deleteCase(Store, id)
            reply == DeleteCaseRoute(Store, id)
        IN /\ id \in DOMAIN cases => deleted.ret = TRUE /\ reply.status = 200
           /\ deleted.ret = TRUE =>
                /\ getCase(deleted.st, id) = Undefined
                /\ getCaseServices(deleted.st, id) = {}
                /\ getCaseNotes(deleted.st, id) = {}
           /\ reply.status = 200 =>
                /\ GetCaseRoute(reply.st, id).status = 404
                /\ getCaseServices(reply.st, id) = {}
                /\ getCaseNotes(reply.st, id) = {}

\* a case that a request created with a service and a note is deleted
C1_Witness ==
    \E id \in DOMAIN cases :
        /\ getCaseServices(Store, id) # {}
        /\ getCaseNotes(Store, id) # {}
        /\ \E n \in getCaseNotes(Store, id) : notes[n].content = "Initial report"
        /\ DeleteCaseRoute(Store, id).status = 200

\* C2: referential integrity: every stored service and note has the caseId of
\* a stored case, and a note or service posted to a case id that is not in
\* the store creates no row.
C2_ReferentialIntegrity ==
    /\ \A s \in DOMAIN services : services[s].caseId \in DOMAIN cases
    /\ \A n \in DOMAIN notes : notes[n].caseId \in DOMAIN cases
    /\ \A id \in CaseIds \ DOMAIN cases :
        /\ \A userId \in DOMAIN users, body \in NoteBodies :
               PostNote(Store, id, body, userId, now).st.notes = notes
        /\ \A body \in ServiceBodies :
               PostService(Store, id, body, now).st.services = services

\* the dashboard counts of the current store
Stats == getDashboardStats(Store)

C4_CreateCaseFreshId ==
    \A caseData \in InsertCases :
        LET created == createCase(Store, caseData, now)
        IN /\ ~created.threw
           /\ created.ret.id \notin issuedCaseIds
           /\ getCase(created.st, created.ret.id) = created.ret

\* a case is created after an earlier one was deleted
C4_Witness ==
    /\ \E id \in issuedCaseIds : id \notin DOMAIN cases
    /\ \E caseData \in InsertCases :
        LET created == createCase(Store, caseData, now)
        IN ~created.threw /\ created.ret.id > Cardinality(DOMAIN cases) + 1

\* C5: a case's id is immutable: every stored case is stored under the id it
\* carries, and that id is one createCase returned.
C5_IdImmutable ==
    \A k \in DOMAIN cases : cases[k].id = k /\ k \in issuedCaseIds

\* the Case, Service and Note rows of a store
Rows(st) == <<st.cases, st.services, st.notes>>

\* C6: whenever POST /api/cases or PUT /api/cases/:id answers 400, the store
\* holds the same Case, Service and Note rows as before the request.
C6_NoPartialWrites ==
    /\ \A userId \in DOMAIN users, body \in PostBodies :
        LET reply == PostCases(Store, body, userId, now)
        IN reply.status = 400 => Rows(reply.st) = Rows(Store)
    /\ \A userId \in DOMAIN users, id \in CaseIds, body \in PutBodies :
        LET reply == PutCase(Store, id, body, userId, now)
        IN reply.status = 400 => Rows(reply.st) = Rows(Store)

\* C7: after a successful POST /api/cases by user u, getCaseWithDetails of the
\* new id has exactly one service per selected entry (of that type, provider
\* the payload's encoderName), and exactly one note (content caseNotes,
\* author u's id and fullName) when caseNotes is non-empty, none otherwise.
C7_CreateRoundTrip ==
    \A userId \in DOMAIN users, body \in PostBodies :
        LET reply == PostCases(Store, body, userId, now)
            details == getCaseWithDetails(reply.st, reply.json.id)
            types == IF Has(body, "services") THEN SelectedTypes(body.services.items) ELSE <<>>
        IN reply.status = 201 =>
            /\ details # Undefined
            /\ Cardinality(details.services) = Len(types)
            /\ \A i \in 1..Len(types) :
                 \E s \in details.services :
                     s.type = types[i] /\ s.provider = body.encoderName
            /\ IF Falsy(body, "caseNotes") THEN details.notes = {}
               ELSE /\ Cardinality(details.notes) = 1
                    /\ \A n \in details.notes :
                         /\ n.content = body.caseNotes
                         /\ n.author = [id |-> users[userId].id,
                                        fullName |-> users[userId].fullName]

\* the frame of an update that returned `new` for the case that was `old`:
\* the payload's fields carry the payload's values, the other fields but
\* updatedAt are as before, the other cases and all services and notes too
Frame(st, id, caseData, new) ==
    LET old == cases[id]
    IN /\ new # Undefined
       /\ \E k \in DOMAIN st.cases : st.cases[k] = new
       /\ \A f \in DOMAIN caseData : Has(new, f) /\ new[f] = caseData[f]
       /\ \A f \in DOMAIN old \ (DOMAIN caseData \cup {"updatedAt"}) :
            Has(new, f) /\ new[f] = old[f]
       /\ DOMAIN new \subseteq DOMAIN old \cup DOMAIN caseData \cup {"updatedAt"}
       /\ Cardinality(DOMAIN st.cases) = Cardinality(DOMAIN cases)
       /\ \A k \in DOMAIN cases \ {id} : getCase(st, k) = cases[k]
       /\ st.services = services
       /\ st.notes = notes

\* C8: updateCase(id, payload) on an existing case, and a PUT without
\* services and caseNotes that answers 200, set exactly the payload's fields
\* and leave the case's other fields (but updatedAt), the other cases and
\* all services and notes as they were, whether the update is made at the
\* time the case was stored or later; PUT {status: "closed"} answers 200
\* with status "closed".
C8_PartialUpdateFrame ==
    \A id \in DOMAIN cases, t \in {now, now + 1} :
        /\ \A caseData \in UpdatePayloads :
            LET updated == updateCase(Store, id, caseData, t)
            IN IF updated.threw THEN updated.st = Store
               ELSE Frame(updated.st, id, caseData, updated.ret)
        /\ \A userId \in DOMAIN users, body \in PutFields :
            LET reply == PutCase(Store, id, body, userId, t)
            IN /\ reply.status = 200 => Frame(reply.st, id, CaseDataOf(body), reply.json)
               /\ body = [status |-> "closed"] =>
                    reply.status = 200 /\ reply.json.status = "closed"

\* a pending case that has a service and a note is closed, at a later time
\* than it was created
C8_Witness ==
    \E id \in DOMAIN cases :
        /\ cases[id].status = "pending"
        /\ cases[id].createdAt < now + 1
        /\ getCaseServices(Store, id) # {}
        /\ getCaseNotes(Store, id) # {}
        /\ ~updateCase(Store, id, [status |-> "closed"], now + 1).threw

\* what the storage methods and GET / DELETE do with an id that is not stored
NotFoundSentinels(id) ==
    /\ getCase(Store, id) = Undefined
    /\ getCaseWithDetails(Store, id) = Undefined
    /\ \A body \in PutBodies :
         updateCase(Store, id, CaseDataOf(body), now) = Returned(Store, Undefined)
    /\ deleteCase(Store, id) = Returned(Store, FALSE)
    /\ GetCaseRoute(Store, id) = Reply(Store, 404, [message |-> "Case not found"])
    /\ DeleteCaseRoute(Store, id) = Reply(Store, 404, [message |-> "Case not found"])

\* C9 (as stated): on an id that is not in the store the storage methods
\* return the sentinel, GET / PUT / DELETE answer 404, and nothing changes.
C9_NotFoundIs404 ==
    \A id \in CaseIds \ DOMAIN cases :
        /\ NotFoundSentinels(id)
        /\ \A userId \in DOMAIN users, body \in PutBodies :
            LET reply == PutCase(Store, id, body, userId, now)
            IN reply.status = 404 /\ reply.st = Store

\* C9 (amended): as above, but PUT answers 404 only when its body passes the
\* field validation; a body with a non-string name field or a status outside
\* active / pending / closed is answered 400. Either way nothing changes.
C9_NotFoundIs404OrInvalid ==
    \A id \in CaseIds \ DOMAIN cases :
        /\ NotFoundSentinels(id)
        /\ \A userId \in DOMAIN users, body \in PutBodies :
            LET reply == PutCase(Store, id, body, userId, now)
                invalid ==
                    \/ \E f \in {"victimName", "incidentType", "perpetratorName"} :
                           Has(body, f) /\ Typeof(body[f]) # "string"
                    \/ Has(body, "status") /\ body.status \notin StatusValues
            IN /\ reply.st = Store
               /\ reply.status = IF invalid THEN 400 ELSE 404

\* the id of a deleted case is sent a PUT with selected services and case notes
C9_Witness ==
    \E id \in issuedCaseIds \ DOMAIN cases :
        /\ \E userId \in DOMAIN users, body \in PutBodies :
            /\ Has(body, "services") /\ body.services.isArray
            /\ SelectedTypes(body.services.items) # <<>>
            /\ ~Falsy(body, "caseNotes")
            /\ PutCase(Store, id, body, userId, now).status = 404

\* C10: validateUser never throws; it returns the stored user when the
\* username exists and the password matches its hash, and null otherwise.
C10_ValidateUserTotal ==
    \A username \in Usernames, password \in Passwords :
        LET validated == validateUser(Store, username, password)
            user == getUserByUsername(Store, username)
        IN /\ ~validated.threw
           /\ validated.st = Store
           /\ validated.ret = IF user # Undefined /\ user.password = Hash(password)
                              THEN user ELSE Null

\* the two outcomes of one call are the same observable result
SameResult(mem, db) == mem.threw = db.threw /\ mem.ret = db.ret

\* C11: whatever calls an empty MemStorage and an empty DBStorage were both
\* given, the next call returns the same result on both: same ids, same
\* field values, same dashboard counts.
C11_BackendsAgree ==
    /\ \A insertUser \in InsertUsers :
         SameResult(createUser(Store, insertUser, now), createUser(twin, insertUser, now))
    /\ \A username \in Usernames, password \in Passwords :
         SameResult(validateUser(Store, username, password),
                    validateUser(twin, username, password))
    /\ \A caseData \in TwinCases :
         SameResult(createCase(Store, caseData, now), createCase(twin, caseData, now))
    /\ \A id \in CaseIds :
         /\ getCase(Store, id) = getCase(twin, id)
         /\ getCaseWithDetails(Store, id) = getCaseWithDetails(twin, id)
         /\ SameResult(deleteCase(Store, id), deleteCase(twin, id))
         /\ \A caseData \in UpdatePayloads :
              SameResult(updateCase(Store, id, caseData, now),
                         updateCase(twin, id, caseData, now))
    /\ \A serviceData \in InsertServices :
         SameResult(addService(Store, serviceData, now), addService(twin, serviceData, now))
    /\ \A noteData \in InsertNotes :
         SameResult(addNote(Store, noteData, now), addNote(twin, noteData, now))
    /\ getDashboardStats(Store) = getDashboardStats(twin)

\* a reply that refuses the request and leaves store and session as they are
Refusal(reply) ==
    /\ reply.status \in {401, 403}
    /\ reply.st = Store
    /\ reply.session = session

\* C12: every endpoint but POST /api/auth/login (logout, me, dashboard and
\* the /api/cases routes) refuses a request that carries no valid bearer
\* token and performs no storage or session operation for it.
C12_RefusesWithoutToken ==
    \A token \in Presented \cup {NoToken} :
        authenticateToken(token, now).status # 200 =>
            /\ Refusal(Logout(Store, session))
            /\ Refusal(Me(Store, session, token, now))
            /\ Refusal(Dashboard(Store, session, token, now))
            /\ Refusal(GetCases(Store, session, token, now))
            /\ \A body \in PostBodies : Refusal(AuthPostCases(Store, session, token, body, now))
            /\ \A id \in CaseIds :
                 /\ Refusal(AuthGetCase(Store, session, token, id, now))
                 /\ Refusal(AuthDeleteCase(Store, session, token, id, now))
                 /\ \A body \in PutBodies :
                      Refusal(AuthPutCase(Store, session, token, id, body, now))
                 /\ \A body \in NoteBodies :
                      Refusal(AuthPostNote(Store, session, token, id, body, now))
                 /\ \A body \in ServiceBodies :
                      Refusal(AuthPostService(Store, session, token, id, body, now))

\* C13: on a protected route a request without a token gets 401; a request
\* with a token gets through exactly when a successful login answered with
\* that token less than 24 hours ago, and gets 403 otherwise (forged or
\* expired); a logout in between revokes nothing.
C13_TokenAcceptance ==
    LET out == Logout(Store, session)
    IN /\ Me(Store, session, NoToken, now).status = 401
       /\ \A token \in Presented :
            LET auth == authenticateToken(token, now)
                reply == Me(Store, session, token, now)
            IN /\ IF token \in tokens /\ now - token.iat < ExpiresIn
                  THEN auth.status = 200 /\ auth.user = token.payload /\ reply.status = 200
                  ELSE auth.status = 403 /\ reply.status = 403
               /\ Me(out.st, out.session, token, now) = [reply EXCEPT !.session = NoSession]

\* after a logout, of two tokens logins answered with, the one that is 24
\* hours old is refused and the younger one gets through
C13_Witness ==
    /\ session = NoSession
    /\ \E old \in tokens, young \in tokens :
        /\ now - old.iat = ExpiresIn
        /\ Me(Store, session, old, now).status = 403
        /\ Me(Store, session, young, now).status = 200

\* the login bodies that pass loginSchema and whose credentials validateUser
\* does not accept
FailingLogins ==
    {body \in LoginBodies :
        /\ LoginSchemaOk(body)
        /\ validateUser(Store, body.username, body.password) = Returned(Store, Null)}

\* a token and a session user come only from a login for which validateUser
\* returned a user, and are that user's
OnlyValidatedLogins ==
    /\ \A body \in LoginBodies :
        LET reply == Login(Store, session, body, now)
        IN Has(reply.json, "token") \/ reply.session # session =>
            /\ LoginSchemaOk(body)
            /\ LET user == validateUser(Store, body.username, body.password).ret
               IN /\ user \in {users[u] : u \in DOMAIN users}
                  /\ reply.status = 200
                  /\ reply.json.token = JwtSign(TokenPayload(user), JWT_SECRET, now)
                  /\ reply.session = [user |-> SessionUser(user)]
    /\ \A token \in tokens : \E u \in DOMAIN users : token.payload = TokenPayload(users[u])
    /\ session # NoSession => \E u \in DOMAIN users : session.user = SessionUser(users[u])

\* C14 (as stated): a login whose credentials do not validate answers 401,
\* issues no token and leaves the session without a user; a token and a
\* session user are produced only by a login for which validateUser
\* returned a user.
C14_FailedLoginNoSessionUser ==
    /\ \A body \in FailingLogins :
        LET reply == Login(Store, session, body, now)
        IN /\ reply.status = 401
           /\ ~Has(reply.json, "token")
           /\ reply.session.user = Undefined
    /\ OnlyValidatedLogins

\* C14 (amended): a login whose credentials do not validate answers 401,
\* issues no token and leaves store and session as they were: a session
\* that held the user of an earlier login still holds that user; a token and
\* a session user are produced only by a login for which validateUser
\* returned a user.
C14_FailedLoginLeavesSession ==
    /\ \A body \in FailingLogins :
        LET reply == Login(Store, session, body, now)
        IN /\ reply.status = 401
           /\ ~Has(reply.json, "token")
           /\ reply.session = session
           /\ reply.st = Store
    /\ OnlyValidatedLogins

\* a client whose session holds a user sends a login with a wrong password
\* for another stored user
C14_Witness ==
    /\ session # NoSession
    /\ \E body \in FailingLogins :
        /\ getUserByUsername(Store, body.username) # Undefined
        /\ body.username # session.user.username
        /\ Login(Store, session, body, now).status = 401

\* C15: login does not reveal whether a username exists: a login with an
\* unknown username and a login with a known username and a wrong password
\* get the same response (status 401, the same body).
C15_LoginGenericFailure ==
    \A unknown \in FailingLogins, wrong \in FailingLogins :
        /\ getUserByUsername(Store, unknown.username) = Undefined
        /\ getUserByUsername(Store, wrong.username) # Undefined
        => LET a == Login(Store, session, unknown, now)
               b == Login(Store, session, wrong, now)
           IN /\ a.status = 401
              /\ a = b

\* the user who holds the session is sent with a wrong password, next to a
\* username nobody has
C15_Witness ==
    /\ session # NoSession
    /\ \E unknown \in FailingLogins, wrong \in FailingLogins :
        /\ getUserByUsername(Store, unknown.username) = Undefined
        /\ wrong.username = session.user.username
        /\ Login(Store, session, wrong, now).status = 401

\* the list holds the rows `rows[i]`, i in ids, each exactly once
ListsAll(list, rows, ids) ==
    /\ Len(list) = Cardinality(ids)
    /\ \A i \in ids : \E k \in 1..Len(list) : list[k] = rows[i]

\* a row precedes every row that was created before it (ids are handed out
\* in creation order)
NewestCreatedFirst(list) ==
    \A i \in 1..Len(list), j \in 1..Len(list) : i < j => list[i].id > list[j].id

\* C16: getCases returns every stored case exactly once, newest-created
\* first, also for cases created within the same clock tick; getCaseNotes
\* lists a case's notes newest-created first; getCaseServices lists its
\* services by descending dateProvided.
C16_ListingOrder ==
    /\ \A list \in getCases(Store) :
        ListsAll(list, cases, DOMAIN cases) /\ NewestCreatedFirst(list)
    /\ \A c \in ListedCaseIds :
        /\ \A list \in getCaseNotesSorted(Store, c) :
            ListsAll(list, notes, getCaseNotes(Store, c)) /\ NewestCreatedFirst(list)
        /\ \A list \in getCaseServicesSorted(Store, c) :
            /\ ListsAll(list, services, getCaseServices(Store, c))
            /\ \A i \in 1..Len(list), j \in 1..Len(list) :
                 i < j => list[i].dateProvided >= list[j].dateProvided

\* the smaller of two numbers
Min(a, b) == IF a < b THEN a ELSE b

\* the ids of the n most recently created cases of a store (ids are handed
\* out in creation order)
MostRecentIds(st, n) ==
    {i \in DOMAIN st.cases : Cardinality({j \in DOMAIN st.cases : j > i}) < n}

\* C17: recentCases has at most 5 entries; they are the min(5, N) most
\* recently created cases, each expanded to CaseWithDetails; when a
\* deleteCase runs between the listing and the expansion, the deleted case
\* is dropped and no entry is undefined.
C17_RecentCases ==
    /\ \A recent \in RecentCases(Store) :
        /\ Len(recent) = Min(RecentLimit, Cardinality(DOMAIN cases))
        /\ {recent[k].case.id : k \in 1..Len(recent)} = MostRecentIds(Store, RecentLimit)
        /\ \A k \in 1..Len(recent) : recent[k] = getCaseWithDetails(Store, recent[k].case.id)
    /\ \A id \in DOMAIN cases :
        \A recent \in RecentCasesAt(Store, deleteCase(Store, id).st) :
            /\ Len(recent) <= RecentLimit
            /\ \A k \in 1..Len(recent) : recent[k] # Undefined /\ recent[k].case.id # id

\* the ids of the n most recently created notes of the store
MostRecentNotes(n) == {i \in DOMAIN notes : Cardinality({j \in DOMAIN notes : j > i}) < n}

\* a feed of at most 5 entries, each built from one of the 5 most recently
\* created notes
FeedOfRecentNotes(feed) ==
    /\ Len(feed) <= NotesLimit
    /\ \A k \in 1..Len(feed) :
        \E n \in MostRecentNotes(NotesLimit) :
            /\ Has(feed[k], "caseId")
            /\ feed[k].authorId = notes[n].authorId
            /\ feed[k].caseId = notes[n].caseId
            /\ feed[k].timestamp = notes[n].createdAt
            /\ notes[n].caseId \in DOMAIN cases
            /\ Has(cases[notes[n].caseId], "victimName")
            /\ feed[k].victimName = cases[notes[n].caseId].victimName

\* C18: the staff activities of the dashboard (those of getDashboardStats and
\* those GET /api/dashboard answers with) are at most 5 entries, each built
\* from one of the 5 most recently created notes: the note's authorId and
\* caseId, its createdAt as timestamp, the victimName of its case.
C18_StaffActivities ==
    /\ \A feed \in StaffActivities(Store) : FeedOfRecentNotes(feed)
    /\ \A json \in DashboardJson(Store, now) : FeedOfRecentNotes(json.staffActivities)

\* the reply is a 400 and the store holds the rows it held
Rejected(reply) == reply.status = 400 /\ Rows(reply.st) = Rows(Store)

\* the bodies of POST /api/cases, and one without a status
PostBodiesOrNoStatus == PostBodies \cup {Delete(ValidCase("active"), {"status"})}

\* C19: status is validated at the route boundary: a POST /api/cases whose
\* status is missing or not one of active, pending, closed, and a PUT
\* /api/cases/:id whose status is present and not one of the three, answers
\* 400 and stores nothing, in the routes that check the status themselves and
\* in the schema-validated ones; every stored case has one of the three statuses.
C19_StatusValidated ==
    /\ \A userId \in DOMAIN users, body \in PostBodiesOrNoStatus :
        Falsy(body, "status") \/ body.status \notin StatusValues =>
            /\ Rejected(PostCases(Store, body, userId, now))
            /\ Rejected(PostCasesSchema(Store, body, userId, now))
    /\ \A userId \in DOMAIN users, id \in CaseIds, body \in PutBodies :
        Has(body, "status") /\ body.status \notin StatusValues =>
            /\ Rejected(PutCase(Store, id, body, userId, now))
            /\ Rejected(PutCaseSchema(Store, id, body, now))
    /\ \A c \in DOMAIN cases : cases[c].status \in StatusValues

\* bodies of PUT /api/cases/:id with a services list, alone or next to a
\* case field; one list names a type twice
PutServicesBodies ==
    {Spread(f, [services |-> ServicesArray(items)]) :
        f \in {<<>>, [status |-> "closed"]},
        items \in {<<Entry("Medical assistance", TRUE), Entry("Counseling", FALSE)>>,
                   <<Entry("Medical assistance", TRUE), Entry("Counseling", TRUE)>>,
                   <<Entry("Counseling", TRUE), Entry("Counseling", TRUE)>>}}

\* the types of the selected entries of a body
SelectedSet(body) ==
    LET types == SelectedTypes(body.services.items)
    IN {types[k] : k \in 1..Len(types)}

\* the types of the Service rows a case has in a store
TypesOf(st, id) == {st.services[s].type : s \in getCaseServices(st, id)}

\* the types of the Service rows of the case that are in `st` and not in the store
NewTypes(st, id) == {st.services[s].type : s \in getCaseServices(st, id) \ DOMAIN services}

PutNoteBodies ==
    {[caseNotes |-> "Follow-up visit"],
     [caseNotes |-> "Follow-up visit", status |-> "closed"],
     [caseNotes |-> "Initial report",
      services |-> ServicesArray(<<Entry("Medical assistance", TRUE),
                                   Entry("Counseling", TRUE)>>)]}

\* a PUT with case notes that answers 200 has added one note to the case, by
\* the acting user, and left the notes of the store as they were
PutAddsOneNote ==
    \A id \in DOMAIN cases, body \in PutNoteBodies, userId \in DOMAIN users :
        LET reply == PutCase(Store, id, body, userId, now)
            new == DOMAIN reply.st.notes \ DOMAIN notes
        IN reply.status = 200 =>
            /\ Cardinality(new) = 1
            /\ \A n \in new :
                 /\ reply.st.notes[n].caseId = id
                 /\ reply.st.notes[n].authorId = userId
                 /\ reply.st.notes[n].content = body.caseNotes
            /\ \A n \in DOMAIN notes :
                 n \in DOMAIN reply.st.notes /\ reply.st.notes[n] = notes[n]

\* a step keeps every note as it is, or deletes the note's case
NotesKept ==
    \A n \in DOMAIN notes :
        \/ n \in DOMAIN notes' /\ notes'[n] = notes[n]
        \/ notes[n].caseId \in DOMAIN cases /\ notes[n].caseId \notin DOMAIN cases'

\* C21: a PUT /api/cases/:id with non-empty caseNotes that answers 200 adds
\* exactly one note to the case, authored by the acting user, and leaves
\* every earlier note unchanged; no request changes or removes a note except
\* by deleting the note's case.
C21_PutAddsNoteNotesOnlyGrow == []PutAddsOneNote /\ [][NotesKept]_vars

\* a case that already has a note is sent a PUT with case notes that answers 200
C21_Witness ==
    \E id \in DOMAIN cases, body \in PutNoteBodies, userId \in DOMAIN users :
        /\ getCaseNotes(Store, id) # {}
        /\ userId \notin {notes[n].authorId : n \in getCaseNotes(Store, id)}
        /\ PutCase(Store, id, body, userId, now).status = 200

\* bodies of PUT /api/cases/:id with one field the validation rules reject:
\* a name field that is no string, an incident date that does not parse
PutInvalidBodies ==
    {[f \in {k} |-> JsonNumber] :
        k \in {"victimName", "incidentType", "perpetratorName", "encoderName"}}
    \cup {[incidentDate |-> BadDateString]}

\* C22: a PUT /api/cases/:id whose payload holds victimName, incidentType,
\* perpetratorName or encoderName with a non-string value, or an incidentDate
\* that does not parse to a valid timestamp, answers 400 and leaves the
\* stored case unchanged.
C22_UpdateValidation ==
    \A id \in DOMAIN cases, body \in PutInvalidBodies, userId \in DOMAIN users :
        LET reply == PutCase(Store, id, body, userId, now)
        IN reply.status = 400 /\ reply.st.cases = cases

\* the generic answer to an internal error
GenericError(reply) == reply.status = 500 /\ reply.json = ServerError

\* the PUT bodies that pass the field checks of the handler
PutCheckedBodies ==
    {body \in PutBodies :
        /\ \A f \in {"victimName", "incidentType", "perpetratorName"} :
             Has(body, f) => Typeof(body[f]) = "string"
        /\ Has(body, "status") => body.status \in StatusValues}

\* C23: when a storage operation throws inside a route handler (createCase in
\* POST /api/cases, updateCase or addNote in PUT /api/cases/:id, addNote and
\* addService in the note and service routes), the response is status 500
\* with the generic message and carries no text of the underlying error.
C23_StorageFailureIs500 ==
    /\ \A userId \in DOMAIN users, body \in {Spread(ValidCase("active"), x) : x \in FormExtras} :
        createCase(Store, CaseDataOf(body), now).threw
        => GenericError(PostCases(Store, body, userId, now))
    /\ \A userId \in DOMAIN users, id \in CaseIds, body \in PutCheckedBodies :
        LET reply == PutCase(Store, id, body, userId, now)
            updated == updateCase(Store, id, CaseDataOf(body), now)
            noted == addNote(updated.st, [content |-> "Initial report", authorId |-> userId,
                                          caseId |-> id], now)
        IN /\ updated.threw => GenericError(reply)
           /\ /\ ~updated.threw
              /\ updated.ret # Undefined
              /\ body = [caseNotes |-> "Initial report"]
              /\ noted.threw
              => GenericError(reply)
    /\ \A userId \in DOMAIN users, id \in CaseIds, body \in NoteBodies :
        addNote(Store, [content |-> "Follow-up visit", authorId |-> userId, caseId |-> id],
                now).threw /\ ~Falsy(body, "content")
        => GenericError(PostNote(Store, id, body, userId, now))
    /\ \A id \in CaseIds, body \in ServiceBodies :
        addService(Store, [type |-> body.type, provider |-> body.provider,
                           dateProvided |-> IncidentTime, notes |-> "", caseId |-> id],
                   now).threw /\ ~Falsy(body, "dateProvided")
        => GenericError(PostService(Store, id, body, now))

\* the rows of services and notes a case has in a store, as lists in the
\* order they were inserted
RECURSIVE InOrder(_, _)
InOrder(rows, ids) ==
    IF ids = {} THEN <<>>
    ELSE LET first == CHOOSE i \in ids : \A j \in ids : i <= j
         IN <<rows[first]>> \o InOrder(rows, ids \ {first})

\* C24: POST /api/cases writes the Case row, then the Service rows, then the
\* Note, and rolls nothing back: when the write of a Service or of the Note
\* fails after the Case was written, the Case row stays in the store with
\* the Service rows written so far, the remaining rows are missing, and the
\* rows the store held before are as they were.
C24_CreateNotRolledBack ==
    \A body \in FullForms, n \in 0..MaxWrites, userId \in DOMAIN users :
        LET reply == PostCases(FailingAfter(Store, n), body, userId, now)
            id == currentCaseId
            types == SelectedTypes(body.services.items)
            written == InOrder(reply.st.services, getCaseServices(reply.st, id))
        IN /\ backend = "db"
           /\ ~createCase(Store, CaseDataOf(body), now).threw
           /\ n < Len(types) + 1
           => /\ reply.status # 201
              /\ id \notin DOMAIN cases
              /\ id \in DOMAIN reply.st.cases
              /\ reply.st.cases[id].victimName = body.victimName
              /\ Len(written) = Min(n, Len(types))
              /\ \A k \in 1..Len(written) : written[k].type = types[k]
              /\ getCaseNotes(reply.st, id) = {}
              /\ \A c \in DOMAIN cases : reply.st.cases[c] = cases[c]
              /\ \A s \in DOMAIN services : reply.st.services[s] = services[s]
              /\ \A m \in DOMAIN notes : reply.st.notes[m] = notes[m]

\* a case that a request left behind with a service and without its note
\* (the connection failed after one write), and the next request loses its
\* connection after the case is written
C24_Witness ==
    /\ backend = "db"
    /\ \E c \in DOMAIN cases : getCaseServices(Store, c) # {} /\ getCaseNotes(Store, c) = {}
    /\ \E body \in FullForms, userId \in DOMAIN users :
        LET reply == PostCases(FailingAfter(Store, 0), body, userId, now)
        IN /\ reply.status = 400
           /\ currentCaseId \in DOMAIN reply.st.cases
           /\ getCaseServices(reply.st, currentCaseId) = {}

\* C25: in the case-detail view of a case with notes, the note labelled
\* "Case Opened" (in the notes list and in the timeline) is the note with the
\* earliest createdAt of the case, and every other note is labelled an update.
C25_CaseOpenedIsEarliest ==
    \A c \in DOMAIN cases :
        \A list \in getCaseNotesSorted(Store, c) :
            LET shown == CaseDetailLabels(list)
                opened == {k \in 1..Len(shown) : shown[k].label.text = "Case Opened"}
            IN /\ Len(list) > 0 => Cardinality(opened) = 1
               /\ \A k \in opened :
                    /\ shown[k].timeline.text = "Case Opened"
                    /\ \A j \in 1..Len(list) : shown[k].note.createdAt <= list[j].createdAt
               /\ \A k \in (1..Len(shown)) \ opened :
                    shown[k].label.text = "Update" /\ shown[k].timeline.text = "Update"

\* C26: whatever PUT /api/cases/:id requests with services lists were served,
\* one after the other or interleaved, a case that started without services
\* has at most one Service row per service type.
C26_OneServicePerType ==
    \A c \in DOMAIN cases :
        \A s1 \in getCaseServices(Store, c), s2 \in getCaseServices(Store, c) :
            services[s1].type = services[s2].type => s1 = s2

\* the orders (lists of ids) getCases may return the cases of a store in
CaseOrders(st) == {[k \in 1..Len(list) |-> list[k].id] : list \in getCases(st)}

\* C27: no PUT /api/cases/:id, whatever its body (a body with a createdAt
\* field included), changes the createdAt of a stored case: every stored
\* case carries the clock reading of its insertion, getCases and GET
\* /api/cases succeed, and a PUT leaves the order of the listing as it was.
C27_CreatedAtKept ==
    /\ \A c \in DOMAIN cases : cases[c].createdAt \in 1..now
    /\ getCases(Store) # {}
    /\ \A token \in {JwtSign(TokenPayload(users[1]), JWT_SECRET, now)} :
         GetCases(Store, session, token, now).status = 200
    /\ \A id \in DOMAIN cases, body \in CreatedAtBodies, userId \in DOMAIN users :
         LET reply == PutCase(Store, id, body, userId, now)
         IN /\ \A c \in DOMAIN cases :
                 /\ c \in DOMAIN reply.st.cases
                 /\ reply.st.cases[c].createdAt = cases[c].createdAt
            /\ CaseOrders(reply.st) = CaseOrders(Store)

\* C28: in every state that interleavings of the mount-time checkAuth and a
\* login reach, whenever the context's user is non-null the authToken of
\* localStorage is the token of that user's login; a late reply to checkAuth
\* does not remove the token a login stored in the meantime.
C28_UserHasToken ==
    client.user # Null =>
        /\ client.authToken \in tokens
        /\ client.authToken.payload.id = client.user.id

\* C29: a login that starts with no user and no token, while no checkAuth is
\* in flight, and rejects (its POST failed, or the verifying /api/auth/me was
\* not OK) leaves no authToken in localStorage and the user null.
C29_LoginAllOrNothing ==
    /\ client.user = Null
    /\ client.authToken = Null
    /\ client.checkAuth.at # "fetch"
    => \A body \in TypedLogins :
         LET reply == Login(Store, session, body, now)
         IN \A posted \in {NetworkError, Response(reply)} :
              LET c1 == LoginPosted(LoginStart(client, body), posted)
              IN IF c1.login.at = "rejected" THEN c1.authToken = Null /\ c1.user = Null
                 ELSE \A verified \in MeOutcomes(reply.st, reply.session, c1.login.token, now) :
                        LET c2 == LoginVerified(c1, verified)
                        IN c2.login.at = "rejected" =>
                             c2.authToken = Null /\ c2.user = Null

\* the store holds the seeded users and every sample case with its services
\* and its note
Seeded(st) ==
    /\ Cardinality(DOMAIN st.users) = Len(SeedUsers)
    /\ \A n \in 1..Len(SeedUsers) : getUserByUsername(st, SeedUsers[n].username) # Undefined
    /\ Cardinality(DOMAIN st.cases) = Len(SampleCases)
    /\ \A n \in 1..Len(SampleCases) :
         \E c \in DOMAIN st.cases :
            /\ st.cases[c].victimName = SampleCases[n].victimName
            /\ Cardinality({s \in DOMAIN st.services : st.services[s].caseId = c})
                 = Len(SampleCases[n].services)
            /\ \E m \in DOMAIN st.notes :
                 /\ st.notes[m].caseId = c
                 /\ st.notes[m].content = SampleCases[n].note

\* C30: on a store that holds the seeded data, seedDatabase and seedUsers make
\* no writes; and on every store that runs of the setup leave behind, some of
\* them cut short, a run of seedDatabase that is not cut short ends with the
\* seeded users and the seeded cases with their services and notes.
C30_SeedCompletes ==
    /\ Seeded(Store) =>
         /\ \A stop \in 0..Len(SeedInserts) : seedDatabase(Store, stop, now) = Store
         /\ \A stop \in 0..Len(SeedTsUsers) : seedUsers(Store, stop, now) = Store
    /\ Seeded(seedDatabase(Store, Len(SeedInserts), now))

====
